---- MODULE Spec2Model ----
(***************************************************************************)
(* Scene progression and voice capture of the Storybook component          *)
(* (src/components/Storybook.tsx) together with the Generation Client      *)
(* variants it can be linked against (src/unnamed/part_000, part_001,      *)
(* part_002) and the serverless scene handlers the part_000 client talks   *)
(* to (src/unnamed/part_005, src/netlify/functions/generate-speech.ts).    *)
(*                                                                         *)
(*   Spec, FairSpec              scene progression and voice capture       *)
(*   SpeechSpec, FairSpeech...   the Narration Player of one displayed     *)
(*                               scene: utterances, timers, teardown        *)
(*   AppSpec                     the application shell (src/App.tsx,       *)
(*                               src/unnamed/part_006): navigation,        *)
(*                               vocabulary preload, backend speech        *)
(*   ListenSpec                  Spec with startListening also called      *)
(*                               directly                                  *)
(*   DisplaySpec                 the narration effect over successive      *)
(*                               scenes: reset and reveal of the text      *)
(*   PreloadSpec                 one vocabulary preload run step by step   *)
(*   ClientSpec                  the Generation Client operations called   *)
(*                               one after another                         *)
(*   SettingsSpec                AppSpec with the settings dialog          *)
(*   ScreenSpec, FairScreenSpec  the selection screens of part_007         *)
(*   TrainerSpec                 the vocabulary trainer                    *)
(*                               (src/components/VocabTrainer.tsx)         *)
(*   DispatchSpec                the backend function over one request     *)
(***************************************************************************)
EXTENDS Integers, Sequences, FiniteSets, TLC

\* ------------------------------------------------------------------ bounds
\* generateScene calls per session
MaxGen == 6
\* recognizer result events per listening session
MaxResults == 2
\* backend answers of one session other than the well-formed one
MaxDegraded == 1

\* ------------------------------------------------- constants of the source
\* Storybook.tsx:154  scenes.length < 4 selects generateNextStoryScene
FinalAfter == 4
\* Storybook.tsx:429  scenes.length >= 5 shows the completion button
CompleteAt == 5

\* props of the session (Storybook.tsx:22): the collected words
words == <<"cat", "dog">>

Languages == {"en-US", "th-TH"}

\* The Generation Client module behind '../services/geminiService':
\*   "api005"  part_000 client, part_005 serverless handler
\*   "apiGS"   part_000 client, netlify/functions/generate-speech.ts handler
\*   "direct"  part_001 (JSON schema, in-browser)
\*   "regex"   part_002 (free text with a [a | b | c] hint block)
Services == {"api005", "apiGS", "direct", "regex"}

Kinds == {"initial", "next", "final"}

\* ------------------------------------------------------------ Story Scene
\* types.ts:46-50.  hasChoices = FALSE models a scene object without a
\* `choices` key (undefined); an empty array is hasChoices = TRUE, <<>>.
Scene(t, has, cs) == [text |-> t, hasChoices |-> has, choices |-> cs]

NoScene == Scene("", FALSE, <<>>)

\* the value of an async call: a resolved scene or a rejection
Resolved(s) == [rejected |-> FALSE, scene |-> s]

Rejected == [rejected |-> TRUE, scene |-> NoScene]

\* --------------------------------------------------- the backend's answers
\* What the generative backend hands back for one scene request:
\*   net        "ok" | "fail"  the call threw / network error
\*   json       the body is a JSON object (JSON clients only)
\*   hasText    the object has a `text` key (JSON clients only)
\*   text       the narrative, possibly ""
\*   hasChoices the `choices` key (JSON) or a [..] hint block (free text)
\*   n          number of entries of that list
\*   img        "ok" | "fail"  outcome of the image call made for the scene
Outcome(net, json, hasT, t, has, n, img) ==
  [net |-> net, json |-> json, hasText |-> hasT, text |-> t,
   hasChoices |-> has, n |-> n, img |-> img]

Outcomes ==
  { Outcome("fail", FALSE, FALSE, "", FALSE, 0, "ok"),
    Outcome("ok", FALSE, FALSE, "A", FALSE, 0, "ok"),
    Outcome("ok", TRUE, FALSE, "", TRUE, 2, "ok"),
    Outcome("ok", TRUE, TRUE, "", TRUE, 3, "ok"),
    Outcome("ok", TRUE, TRUE, "A", FALSE, 0, "ok"),
    Outcome("ok", TRUE, TRUE, "A", TRUE, 0, "ok"),
    Outcome("ok", TRUE, TRUE, "A", TRUE, 3, "ok"),
    Outcome("ok", TRUE, TRUE, "A", TRUE, 3, "fail") }

ChoiceList(n) == SubSeq(<<"c1", "c2", "c3">>, 1, n)

\* the hint block as it appears in a free-text answer
BracketText(n) ==
  CASE n = 0 -> "[]"
    [] n = 1 -> "[c1]"
    [] n = 2 -> "[c1 | c2]"
    [] OTHER -> "[c1 | c2 | c3]"

\* ------------------------------------------- Generation Client: part_000
\* part_000:93-97 (and part_001:210-214): the "got lost" fallback
FallbackScene ==
  Scene("Oh no! The storyteller got a little lost. Let's try again.", TRUE, <<"Start over">>)

\* part_005:86-116 and 128-131: case 'generateFullStoryScene'
handlerFullStoryScene005(o) ==
  IF o.net = "fail" \/ ~o.json \/ o.text = "" \/ o.img = "fail"
  THEN [status |-> 500, body |-> NoScene]
  ELSE [status |-> 200,
        body |-> Scene(o.text, TRUE, IF o.hasChoices THEN ChoiceList(o.n) ELSE <<>>)]

\* generate-speech.ts:237-284 and 331-350: handleGenerateFullStoryScene
\* (JSON.parse throws on a bad body; a missing text makes text.split throw;
\* an image failure is caught; the choices are passed on as received)
handleGenerateFullStoryScene(o) ==
  IF o.net = "fail" \/ ~o.json \/ ~o.hasText
  THEN [status |-> 500, body |-> NoScene]
  ELSE [status |-> 200,
        body |-> Scene(o.text, o.hasChoices, IF o.hasChoices THEN ChoiceList(o.n) ELSE <<>>)]

\* part_000:10-29: callApi rethrows on a non-2xx answer
callApi(resp) ==
  IF resp.status # 200 THEN Rejected ELSE Resolved(resp.body)

\* a client without the try/catch
generateScene000_noCatch(resp) == callApi(resp)

\* part_000:88-99: generateScene
generateScene000(resp) ==
  IF callApi(resp).rejected THEN Resolved(FallbackScene) ELSE callApi(resp)

\* ------------------------------------------- Generation Client: part_001
\* part_001:174-216: generateSceneFromPrompt
generateSceneFromPrompt(o) ==
  IF o.net = "fail" \/ ~o.json \/ o.text = ""
  THEN Resolved(FallbackScene)
  ELSE Resolved(Scene(o.text, TRUE, IF o.hasChoices THEN ChoiceList(o.n) ELSE <<>>))

\* ------------------------------------------- Generation Client: part_002
\* the raw answer text of the free-text backend
RawText(o) == o.text \o (IF o.hasChoices THEN BracketText(o.n) ELSE "")

\* part_002:139-145: /\[(.*?)\s*\|\s*(.*?)\s*\|\s*(.*?)\]/ needs two bars
HintMatch(o) == o.hasChoices /\ o.n = 3

\* part_002:152-160
FallbackInitial(lang) ==
  Scene(IF lang = "th-TH"
        THEN "TH: once upon a time " \o words[1] \o " and " \o words[2]
        ELSE "Once upon a time, in a magical land, a friendly " \o words[1]
             \o " and a wise " \o words[2] \o " were about to start a great adventure!",
        TRUE,
        IF lang = "th-TH" THEN <<"TH: explore the forest", "TH: cross the bridge", "TH: talk to a bird">>
        ELSE <<"Explore the forest", "Cross the bridge", "Talk to a bird">>)

\* part_002:210-220
FallbackNext(lang) ==
  Scene(IF lang = "th-TH" THEN "TH: and so the adventure continued"
        ELSE "And so, the adventure continued in an unexpected way!",
        TRUE,
        IF lang = "th-TH" THEN <<"TH: go into the forest", "TH: go to the castle", "TH: hide in a cave">>
        ELSE <<"Go into the forest", "Go to the castle", "Hide in a cave">>)

\* part_002:251-257
FallbackFinal(lang) ==
  Scene(IF lang = "th-TH" THEN "TH: and they all lived happily ever after"
        ELSE "And they all lived happily ever after, having learned a valuable lesson about friendship.",
        FALSE, <<>>)

\* part_002:124-149 and 181-206: the success path of the initial and next scene
ParseHintScene(o) ==
  IF HintMatch(o) THEN Scene(o.text, TRUE, ChoiceList(3))
  ELSE Scene(RawText(o), FALSE, <<>>)

\* part_002:113-162
generateInitialStoryScene002(o, lang) ==
  IF o.net = "fail" \/ RawText(o) = "" THEN Resolved(FallbackInitial(lang))
  ELSE Resolved(ParseHintScene(o))

\* part_002:164-222
generateNextStoryScene002(o, lang) ==
  IF o.net = "fail" \/ RawText(o) = "" THEN Resolved(FallbackNext(lang))
  ELSE Resolved(ParseHintScene(o))

\* part_002:224-259
generateFinalStoryScene002(o, lang) ==
  IF o.net = "fail" \/ RawText(o) = "" THEN Resolved(FallbackFinal(lang))
  ELSE Resolved(Scene(RawText(o), FALSE, <<>>))

\* --------------------------------- '../services/geminiService' as imported
\* Storybook.tsx:3 and 152-158: the three entry points, per linked variant
GenerationClient(svc, kind, o, lang) ==
  CASE svc = "api005" -> generateScene000(handlerFullStoryScene005(o))
    [] svc = "apiGS"  -> generateScene000(handleGenerateFullStoryScene(o))
    [] svc = "direct" -> generateSceneFromPrompt(o)
    [] OTHER -> CASE kind = "initial" -> generateInitialStoryScene002(o, lang)
                  [] kind = "next"    -> generateNextStoryScene002(o, lang)
                  [] OTHER            -> generateFinalStoryScene002(o, lang)

\* ======================================================== Storybook state
VARIABLES
  service,            \* the linked Generation Client variant
  language,           \* prop (Storybook.tsx:22)
  hasRecognition,     \* recognitionRef.current is not null (Storybook.tsx:11,33)
  phase,              \* "created" | "mounted" | "completed"
  scenes,             \* useState<StoryScene[]>([])           (line 23)
  currentSceneIndex,  \* useState(0)                           (line 24)
  isLoading,          \* useState(true)                        (line 25)
  isListening,        \* useState(false)                       (line 26)
  transcript,         \* useState('')                          (line 27)
  isAwaitingFeedback, \* useState(false)                       (line 28)
  isSpeaking,         \* useState(false)                       (line 30)
  isProcessing,       \* useRef(false)                         (line 36)
  hasSpokenForScene,  \* useRef({}): indices already narrated  (line 37)
  feedbackTimeout,    \* useRef(null): id of the last debounce timer, 0 = null
  timers,             \* pending debounce timers with the closure they captured
  inflight,           \* generateScene calls suspended at their await
  recState,           \* platform recognizer: "idle" | "running" | "stopping" | "errored"
  handlers,           \* onresult / onerror / onend are attached
  results,            \* result events delivered since the recognizer started
  synth,              \* platform synthesis queue: "idle" | "pending" | "speaking"
  narrTimers,         \* scene indices whose 100 ms narration-start timer is pending
  genCalls,           \* number of generateScene calls so far
  forwarded           \* texts handed to processSpeech's timer since recognition.start()

\* the Narration Player of Storybook.tsx in detail (71-142, 181-281)
VARIABLES
  utts,               \* utterances handed to speechSynthesis.speak, in order
  doneTimers,         \* pending 50 ms timers of onDone                (line 119)
  revealed,           \* displayedText.length / the ticker's i          (29, 253)
  ticker,             \* the reveal interval is running                (255)
  tickerOf,           \* textToDisplay in the closure of the interval   (184)
  displayedOf,        \* the narrative displayedText was cut from, "" = '' (257)
  speakCalls,         \* calls of speak(text, lang)                    (71)
  speakResolved       \* promises of speak that have resolved          (72)

\* the application shell (App.tsx, part_006:1-204)
VARIABLES
  app,                \* which shell: "App" (App.tsx) | "App006" (part_006:14)
  gameState,          \* useState<GameState>                  (App.tsx:231)
  preloadedData,      \* id of the preload whose items are stored, 0 = []  (237)
  fullWordList,       \* id of the preload whose list is stored, 0 = []    (238)
  preloads,           \* preload runs suspended at an await   (App.tsx:125)
  preloadCalls,       \* preload runs started so far
  visits,             \* times the user went home             (App.tsx:297)
  appLoading,         \* isLoading of part_006:26
  audioSrc,           \* useState<string | null>: id of the clip, 0 = null (248)
  isAudioPlaying,     \* App.tsx:249 / isSpeaking of part_006:30
  isAudioLoading,     \* App.tsx:250
  audioEl,            \* the <audio> element: "idle" | "playing"
  tts,                \* speech requests suspended at fetch   (App.tsx:259)
  ttsCalls,           \* speech requests issued so far
  stopped             \* stopSpeech ran and speak has not been called since

\* one vocabulary preload run in detail (App.tsx:123-152, part_006:68-97,
\* part_006:452-502)
VARIABLES
  isImageGenerationEnabled, \* the setting the run was started with (App.tsx:246)
  preloadPc,          \* where the run is: "start" | "list" | "images" | "done"
  wordList,           \* the list the run obtained, <<>> before    (App.tsx:127)
  wordsForRound,      \* wordList.slice(0, MAX_WORDS_PER_ROUND)    (App.tsx:137)
  preloadedItems,     \* image URI per position of wordsForRound   (App.tsx:140)
  imageRequests,      \* positions whose generateVocabImage call is in flight
  alerts              \* window.alert calls so far              (part_002:76)

\* the Generation Client called directly
VARIABLES
  lastCall,           \* the last call of an operation, with its result
  prevCall            \* the call before it

\* components followed on their own
VARIABLES
  screen,             \* a selection screen of part_007 (25-50, 154-183)
  trainer,            \* the vocabulary trainer (VocabTrainer.tsx:14-18)
  dispatch            \* the backend function over one request
                      \* (generate-speech.ts:297-349, part_005:15-130)

vars == <<service, language, hasRecognition, phase, scenes, currentSceneIndex,
          isLoading, isListening, transcript, isAwaitingFeedback, isSpeaking,
          isProcessing, hasSpokenForScene, feedbackTimeout, timers, inflight,
          recState, handlers, results, synth, narrTimers, genCalls, forwarded,
          utts, doneTimers, revealed, ticker, tickerOf, displayedOf, speakCalls,
          speakResolved,
          app, gameState, preloadedData, fullWordList, preloads, preloadCalls,
          visits, appLoading, audioSrc, isAudioPlaying, isAudioLoading, audioEl,
          tts, ttsCalls, stopped,
          isImageGenerationEnabled, preloadPc, wordList, wordsForRound,
          preloadedItems, imageRequests, alerts, lastCall, prevCall, screen, trainer,
          dispatch>>

sideVars == <<screen, trainer, dispatch>>

\* the closure of the reveal interval and the source of the displayed text
revealVars == <<tickerOf, displayedOf>>

speechVars == <<utts, doneTimers, revealed, ticker, revealVars, speakCalls,
                speakResolved>>

clientVars == <<lastCall, prevCall>>

preloadVars == <<isImageGenerationEnabled, preloadPc, wordList, wordsForRound,
                 preloadedItems, imageRequests, alerts>>

appVars == <<app, gameState, preloadedData, fullWordList, preloads, preloadCalls,
             visits, appLoading, audioSrc, isAudioPlaying, isAudioLoading, audioEl,
             tts, ttsCalls, stopped, preloadVars, clientVars, sideVars>>

params == <<service, language, hasRecognition>>

recVars == <<recState, handlers, results>>

\* ------------------------------------------------------ derived values
RECURSIVE Join(_)
\* Array.prototype.join(' ') over the narratives
Join(texts) ==
  IF texts = <<>> THEN ""
  ELSE IF Len(texts) = 1 THEN texts[1]
  ELSE Join(SubSeq(texts, 1, Len(texts) - 1)) \o " " \o texts[Len(texts)]

Texts(ss) == [i \in DOMAIN ss |-> ss[i].text]

\* Storybook.tsx:34
storySoFar == Join(Texts(scenes))

\* Storybook.tsx:170: scenes[currentSceneIndex], undefined past the end
HasCurrentScene == currentSceneIndex + 1 \in DOMAIN scenes

currentScene == IF HasCurrentScene THEN scenes[currentSceneIndex + 1] ELSE NoScene

\* Storybook.tsx:401,416: `currentScene?.choices` is truthy (an empty array is)
ChoicesTruthy == HasCurrentScene /\ currentScene.hasChoices

\* Storybook.tsx:345
areButtonsDisabled == isLoading \/ isAwaitingFeedback

\* Storybook.tsx:392-399: the controls block is rendered instead of the dots
ControlsRendered == phase = "mounted" /\ ~(isLoading \/ isAwaitingFeedback)

\* Storybook.tsx:401-414
ChoiceButtonEnabled(i) ==
  /\ ControlsRendered
  /\ ChoicesTruthy
  /\ i \in DOMAIN currentScene.choices
  /\ ~(areButtonsDisabled \/ isListening \/ isSpeaking)

\* Storybook.tsx:416-427
MicRendered == ControlsRendered /\ ChoicesTruthy /\ hasRecognition

\* a microphone button that stays enabled during narration
MicEnabled_noSpeaking == MicRendered /\ ~areButtonsDisabled

MicEnabled == MicRendered /\ ~(areButtonsDisabled \/ isSpeaking)

\* Storybook.tsx:429-433
CompleteRendered == ControlsRendered /\ Len(scenes) >= CompleteAt /\ ~ChoicesTruthy

CompleteEnabled == CompleteRendered /\ ~(areButtonsDisabled \/ isListening)

\* an off-by-one in the final-scene threshold
SceneKind_late(len) ==
  IF len = 0 THEN "initial" ELSE IF len < FinalAfter + 1 THEN "next" ELSE "final"

\* Storybook.tsx:152-158: which entry point a call with this closure takes
SceneKind(len) ==
  IF len = 0 THEN "initial" ELSE IF len < FinalAfter THEN "next" ELSE "final"

\* ------------------------------------------------------------------ Init
\* the Narration Player before any speech
SpeechIdle ==
  /\ utts = <<>>
  /\ doneTimers = 0
  /\ revealed = 0
  /\ ticker = FALSE
  /\ tickerOf = ""
  /\ displayedOf = ""
  /\ speakCalls = 0
  /\ speakResolved = 0

\* the record of no call
NoCall == [op |-> "none"]

\* no call of the Generation Client is followed
ClientIdle == lastCall = NoCall /\ prevCall = NoCall

\* no preload run is followed in detail
PreloadIdle ==
  /\ isImageGenerationEnabled = TRUE
  /\ preloadPc = "start"
  /\ wordList = <<>>
  /\ wordsForRound = <<>>
  /\ preloadedItems = <<>>
  /\ imageRequests = {}
  /\ alerts = 0

\* no selection screen of part_007 is followed
NoScreen == [kind |-> "none"]

\* no VocabTrainer is followed
NoTrainer == [on |-> FALSE]

\* no request to the backend function is followed
NoDispatch == [pc |-> "off"]

\* none of the components followed on their own is on
SideIdle == screen = NoScreen /\ trainer = NoTrainer /\ dispatch = NoDispatch

\* App.tsx:231-250 with the story screen shown (App.tsx:364-374)
AppOnStory ==
  /\ PreloadIdle
  /\ ClientIdle
  /\ SideIdle
  /\ app = "App"
  /\ gameState = "STORY"
  /\ preloadedData = 0
  /\ fullWordList = 0
  /\ preloads = {}
  /\ preloadCalls = 0
  /\ visits = 0
  /\ appLoading = FALSE
  /\ audioSrc = 0
  /\ isAudioPlaying = FALSE
  /\ isAudioLoading = FALSE
  /\ audioEl = "idle"
  /\ tts = {}
  /\ ttsCalls = 0
  /\ stopped = FALSE

Init ==
  /\ SpeechIdle
  /\ AppOnStory
  /\ service \in Services
  /\ language \in Languages
  /\ hasRecognition \in BOOLEAN
  /\ phase = "created"
  /\ scenes = <<>>
  /\ currentSceneIndex = 0
  /\ isLoading = TRUE
  /\ isListening = FALSE
  /\ transcript = ""
  /\ isAwaitingFeedback = FALSE
  /\ isSpeaking = FALSE
  /\ isProcessing = FALSE
  /\ hasSpokenForScene = {}
  /\ feedbackTimeout = 0
  /\ timers = {}
  /\ inflight = {}
  /\ recState = "idle"
  /\ handlers = FALSE
  /\ results = 0
  /\ synth = "idle"
  /\ narrTimers = {}
  /\ genCalls = 0
  /\ forwarded = <<>>

\* ------------------------------------------------ generateScene (144-163)
\* a generateScene that forgets setIsLoading(true)
GenerateSceneCall_noBusy(choice, len, story) ==
  /\ synth' = "idle"
  /\ isSpeaking' = FALSE
  /\ isLoading' = isLoading
  /\ isAwaitingFeedback' = FALSE
  /\ genCalls' = genCalls + 1
  /\ inflight' = inflight \cup
       {[id |-> genCalls + 1, kind |-> SceneKind(len), len |-> len,
         story |-> IF SceneKind(len) = "initial" THEN "" ELSE story,
         choice |-> IF SceneKind(len) = "next" THEN choice ELSE "",
         resolved |-> choice, histLen |-> Len(scenes), histStory |-> storySoFar,
         busy |-> inflight # {}]}

\* Storybook.tsx:144-158: the synchronous part of generateScene(choice), up to
\* the await.  len and story are `scenes.length` and `storySoFar` of the
\* closure the call runs in.
GenerateSceneCall(choice, len, story) ==
  /\ synth' = "idle"
  /\ isSpeaking' = FALSE
  /\ isLoading' = TRUE
  /\ isAwaitingFeedback' = FALSE
  /\ genCalls' = genCalls + 1
  /\ inflight' = inflight \cup
       {[id |-> genCalls + 1, kind |-> SceneKind(len), len |-> len,
         story |-> IF SceneKind(len) = "initial" THEN "" ELSE story,
         choice |-> IF SceneKind(len) = "next" THEN choice ELSE "",
         resolved |-> choice, histLen |-> Len(scenes), histStory |-> storySoFar,
         busy |-> inflight # {}]}

\* Storybook.tsx:165-168: the mount effect
Mount ==
  /\ phase = "created"
  /\ phase' = "mounted"
  /\ IF Len(scenes) = 0
     THEN GenerateSceneCall("", Len(scenes), storySoFar)
     ELSE UNCHANGED <<synth, isSpeaking, isLoading, isAwaitingFeedback, genCalls,
                      inflight>>
  /\ UNCHANGED <<speechVars, appVars, params, forwarded, scenes, currentSceneIndex, isListening, transcript,
                 isProcessing, hasSpokenForScene, feedbackTimeout, timers,
                 recVars, narrTimers>>

\* an update that puts the new scene first
AppendScene_front(prev, newScene) == <<newScene>> \o prev

\* Storybook.tsx:160: setScenes(prev => [...prev, newScene])
AppendScene(prev, newScene) == Append(prev, newScene)

\* an update that never moves the displayed scene on
NextIndex_stay(len) == currentSceneIndex

\* Storybook.tsx:161: if (scenes.length > 0) setCurrentSceneIndex(prev => prev + 1),
\* with scenes.length of the closure the call runs in
NextIndex(len) == IF len > 0 THEN currentSceneIndex + 1 ELSE currentSceneIndex

\* a narration effect without the hasSpokenForScene check
NarrationDue_always(ss, idx) ==
  /\ idx + 1 \in DOMAIN ss
  /\ ss[idx + 1].text # ""

\* Storybook.tsx:181-251: the narration effect after a render in which the
\* displayed scene is idx (0-based) of ss and the loading flag is off: the
\* first time a scene with a non-empty narrative is shown, its narration is
\* scheduled (hasSpokenForScene, setTimeout 100).
NarrationDue(ss, idx) ==
  /\ idx + 1 \in DOMAIN ss
  /\ ss[idx + 1].text # ""
  /\ idx \notin hasSpokenForScene

\* a well-formed answer of the backend: a narrative and a full hint list
NominalOutcome == Outcome("ok", TRUE, TRUE, "A", TRUE, 3, "ok")

\* the scene the linked client makes of the well-formed answer
NominalScene(kind) == GenerationClient(service, kind, NominalOutcome, language).scene

\* scenes of a history that came from another answer than the well-formed one
Degraded(ss) ==
  Cardinality({i \in DOMAIN ss : ss[i] # NominalScene(SceneKind(i - 1))})

\* Storybook.tsx:160-162 after the await of 153/155/157, and the effects of
\* the render that follows
GenComplete(r, o) ==
  /\ r \in inflight
  /\ inflight' = inflight \ {r}
  /\ LET res == GenerationClient(service, r.kind, o, language)
         idx == NextIndex(r.len)
     IN IF res.rejected
        THEN UNCHANGED <<scenes, currentSceneIndex, isLoading, hasSpokenForScene,
                         narrTimers>>
        ELSE /\ scenes' = AppendScene(scenes, res.scene)
             /\ currentSceneIndex' = idx
             /\ isLoading' = FALSE
             /\ IF NarrationDue(scenes', idx)
                THEN /\ hasSpokenForScene' = hasSpokenForScene \cup {idx}
                     /\ narrTimers' = narrTimers \cup {idx}
                ELSE UNCHANGED <<hasSpokenForScene, narrTimers>>
  /\ o = NominalOutcome \/ Degraded(scenes) < MaxDegraded
  /\ UNCHANGED <<speechVars, appVars, params, forwarded, phase, isListening, transcript, isAwaitingFeedback,
                 isSpeaking, isProcessing, feedbackTimeout, timers, recVars,
                 synth, genCalls>>

\* ------------------------------------------------ processSpeech (172-176)
\* a processSpeech that schedules generation without showing the wait
ProcessSpeech_noFlag(finalTranscript) ==
  IF finalTranscript = ""
  THEN UNCHANGED <<isAwaitingFeedback, timers, feedbackTimeout, forwarded>>
  ELSE /\ isAwaitingFeedback' = isAwaitingFeedback
       /\ forwarded' = Append(forwarded, finalTranscript)
       /\ feedbackTimeout' = feedbackTimeout + 1
       /\ timers' = timers \cup
            {[id |-> feedbackTimeout + 1, choice |-> finalTranscript,
              len |-> Len(scenes), story |-> storySoFar]}

\* a processSpeech without the early return on an empty transcript
ProcessSpeech_noEmptyCheck(finalTranscript) ==
  /\ isAwaitingFeedback' = TRUE
  /\ forwarded' = Append(forwarded, finalTranscript)
  /\ feedbackTimeout' = feedbackTimeout + 1
  /\ timers' = timers \cup
       {[id |-> feedbackTimeout + 1, choice |-> finalTranscript,
         len |-> Len(scenes), story |-> storySoFar]}

\* Storybook.tsx:172-176 (the updates of isAwaitingFeedback, timers and
\* feedbackTimeout); the timer captures generateScene of the current render
ProcessSpeech(finalTranscript) ==
  IF finalTranscript = ""
  THEN UNCHANGED <<isAwaitingFeedback, timers, feedbackTimeout, forwarded>>
  ELSE /\ isAwaitingFeedback' = TRUE
       /\ forwarded' = Append(forwarded, finalTranscript)
       /\ feedbackTimeout' = feedbackTimeout + 1
       /\ timers' = timers \cup
            {[id |-> feedbackTimeout + 1, choice |-> finalTranscript,
              len |-> Len(scenes), story |-> storySoFar]}

\* Storybook.tsx:175: the debounce timer fires and calls generateScene.
\* Timers of one event loop fire in deadline order: a 100 ms narration timer
\* (line 247) set before this 1000 ms timer has fired by now.
DebounceFire(t) ==
  /\ t \in timers
  /\ narrTimers = {}
  /\ timers' = timers \ {t}
  /\ GenerateSceneCall(t.choice, t.len, t.story)
  /\ UNCHANGED <<speechVars, appVars, params, forwarded, phase, scenes, currentSceneIndex, isListening, transcript,
                 isProcessing, hasSpokenForScene, feedbackTimeout, recVars,
                 narrTimers>>

\* ------------------------------------------------------- choice buttons
\* a speak that submits whatever text it is given
SpeakSubmits_always(text) == TRUE

\* Storybook.tsx:71-142: speak(text, lang) submits one utterance unless the
\* text is empty
SpeakSubmits(text) == text # ""

\* Storybook.tsx:268-271 (button of 404-411): handleSpeakChoice
TapChoice(i) ==
  /\ ChoiceButtonEnabled(i)
  /\ synth' = IF SpeakSubmits(currentScene.choices[i]) THEN "pending" ELSE "idle"
  /\ UNCHANGED <<speechVars, appVars, params, forwarded, phase, scenes, currentSceneIndex, isLoading, isListening,
                 transcript, isAwaitingFeedback, isSpeaking, isProcessing,
                 hasSpokenForScene, feedbackTimeout, timers, inflight, recVars,
                 narrTimers, genCalls>>

\* ---------------------------------------------------------- narration
\* Storybook.tsx:239-247: the narration-start timer fires: cancel, then
\* speak the narrative (and the follow-up question)
NarrTimerFire(idx) ==
  /\ idx \in narrTimers
  /\ narrTimers' = narrTimers \ {idx}
  /\ synth' = "pending"
  /\ UNCHANGED <<speechVars, appVars, params, forwarded, phase, scenes, currentSceneIndex, isLoading, isListening,
                 transcript, isAwaitingFeedback, isSpeaking, isProcessing,
                 hasSpokenForScene, feedbackTimeout, timers, inflight, recVars,
                 genCalls>>

\* Storybook.tsx:128-131 and 229: utterance.onstart
SynthStart ==
  /\ synth = "pending"
  /\ synth' = "speaking"
  /\ isSpeaking' = TRUE
  /\ UNCHANGED <<speechVars, appVars, params, forwarded, phase, scenes, currentSceneIndex, isLoading, isListening,
                 transcript, isAwaitingFeedback, isProcessing, hasSpokenForScene,
                 feedbackTimeout, timers, inflight, recVars, narrTimers, genCalls>>

\* Storybook.tsx:116-138 and 233-237: onend / onerror of the last utterance
SynthEnd ==
  /\ synth \in {"pending", "speaking"}
  /\ synth' = "idle"
  /\ isSpeaking' = FALSE
  /\ UNCHANGED <<speechVars, appVars, params, forwarded, phase, scenes, currentSceneIndex, isLoading, isListening,
                 transcript, isAwaitingFeedback, isProcessing, hasSpokenForScene,
                 feedbackTimeout, timers, inflight, recVars, narrTimers, genCalls>>

\* ------------------------------------------------------- voice capture
\* Storybook.tsx:290: the guard of startListening
StartListeningAccepted ==
  hasRecognition /\ ~isListening /\ ~isAwaitingFeedback /\ ~isLoading

\* Storybook.tsx:68: clearTimeout(feedbackTimeout.current)
ClearFeedbackTimeout(ts) == {t \in ts : t.id # feedbackTimeout}

\* a startListening without the early return of line 290
StartListeningCall_noGuard ==
  /\ phase = "mounted"
  /\ genCalls < MaxGen
  /\ synth' = "idle"
  /\ isSpeaking' = FALSE
  /\ timers' = ClearFeedbackTimeout(timers)
  /\ isProcessing' = FALSE
  /\ transcript' = ""
  /\ isListening' = TRUE
  /\ recState' = "running"
  /\ handlers' = TRUE
  /\ results' = 0
  /\ forwarded' = <<>>
  /\ UNCHANGED <<speechVars, appVars, params, phase, scenes, currentSceneIndex, isLoading,
                 isAwaitingFeedback, hasSpokenForScene, feedbackTimeout, inflight,
                 narrTimers, genCalls>>

\* Storybook.tsx:288-301: startListening() in whatever state the component is
StartListeningCall ==
  /\ phase = "mounted"
  /\ genCalls < MaxGen
  /\ IF StartListeningAccepted
     THEN /\ synth' = "idle"
          /\ isSpeaking' = FALSE
          /\ timers' = ClearFeedbackTimeout(timers)
          /\ isProcessing' = FALSE
          /\ transcript' = ""
          /\ isListening' = TRUE
          /\ recState' = "running"
          /\ handlers' = TRUE
          /\ results' = 0
          /\ forwarded' = <<>>
     ELSE UNCHANGED <<synth, isSpeaking, timers, isProcessing, transcript,
                      isListening, recState, handlers, results, forwarded>>
  /\ UNCHANGED <<speechVars, appVars, params, phase, scenes, currentSceneIndex, isLoading,
                 isAwaitingFeedback, hasSpokenForScene, feedbackTimeout, inflight,
                 narrTimers, genCalls>>

\* Storybook.tsx:418: the microphone button, enabled and not listening, calls
\* startListening
StartListening ==
  /\ MicEnabled
  /\ ~isListening
  /\ StartListeningCall

\* Storybook.tsx:283-286 (microphone button of 418 while listening)
StopListening ==
  /\ MicEnabled
  /\ isListening
  /\ recState' = IF recState = "running" THEN "stopping" ELSE recState
  /\ UNCHANGED <<speechVars, appVars, params, forwarded, phase, scenes, currentSceneIndex, isLoading, isListening,
                 transcript, isAwaitingFeedback, isSpeaking, isProcessing,
                 hasSpokenForScene, feedbackTimeout, timers, inflight, handlers,
                 results, synth, narrTimers, genCalls>>

\* what one result event carries: the concatenated final and interim segments
ResultEvents ==
  { [final |-> "", interim |-> "go"],
    [final |-> "go left", interim |-> "now"] }

\* a handler that forgets the processing guard
ShouldForward_noGuard(final) == final # ""

\* Storybook.tsx:311: forward on the first final segment only
ShouldForward(final) == final # "" /\ ~isProcessing

\* Storybook.tsx:303-316: recognition.onresult
RecResult(ev) ==
  /\ recState \in {"running", "stopping"}
  /\ handlers
  /\ results < MaxResults
  /\ results' = results + 1
  /\ transcript' = IF ev.final # "" THEN ev.final ELSE ev.interim
  /\ IF ShouldForward(ev.final)
     THEN /\ isProcessing' = TRUE
          /\ recState' = "stopping"
          /\ ProcessSpeech(ev.final)
     ELSE UNCHANGED <<isProcessing, recState, isAwaitingFeedback, timers,
                      feedbackTimeout, forwarded>>
  /\ UNCHANGED <<speechVars, appVars, params, phase, scenes, currentSceneIndex, isLoading, isListening,
                 isSpeaking, hasSpokenForScene, inflight, handlers, synth,
                 narrTimers, genCalls>>

\* Storybook.tsx:318-321: recognition.onerror
RecError ==
  /\ recState \in {"running", "stopping"}
  /\ handlers
  /\ recState' = "errored"
  /\ isListening' = FALSE
  /\ UNCHANGED <<speechVars, appVars, params, forwarded, phase, scenes, currentSceneIndex, isLoading, transcript,
                 isAwaitingFeedback, isSpeaking, isProcessing, hasSpokenForScene,
                 feedbackTimeout, timers, inflight, handlers, results, synth,
                 narrTimers, genCalls>>

\* an onend handler that forwards whatever happened before
EndShouldForward_noGuard == TRUE

\* Storybook.tsx:325: onend forwards only when nothing was forwarded before
EndShouldForward == ~isProcessing

\* Storybook.tsx:323-332: recognition.onend
RecEnd ==
  /\ recState \in {"running", "stopping", "errored"}
  /\ handlers
  /\ recState' = "idle"
  /\ results' = 0
  /\ isListening' = FALSE
  /\ IF EndShouldForward
     THEN /\ isProcessing' = TRUE
          /\ ProcessSpeech(transcript)
     ELSE UNCHANGED <<isProcessing, isAwaitingFeedback, timers, feedbackTimeout,
                      forwarded>>
  /\ UNCHANGED <<speechVars, appVars, params, phase, scenes, currentSceneIndex, isLoading, transcript,
                 isSpeaking, hasSpokenForScene, inflight, handlers, synth,
                 narrTimers, genCalls>>

\* ------------------------------------------------------------ completion
\* Storybook.tsx:429-433: the completion button calls onComplete, which takes
\* the application off the story screen (App.tsx:335-340)
Complete ==
  /\ CompleteEnabled
  /\ phase' = "completed"
  /\ UNCHANGED <<speechVars, appVars, params, forwarded, scenes, currentSceneIndex, isLoading, isListening,
                 transcript, isAwaitingFeedback, isSpeaking, isProcessing,
                 hasSpokenForScene, feedbackTimeout, timers, inflight, recVars,
                 synth, narrTimers, genCalls>>

\* -------------------------------------------------------- specification
Next ==
  \/ Mount
  \/ \E r \in inflight, o \in Outcomes : GenComplete(r, o)
  \/ \E t \in timers : DebounceFire(t)
  \/ \E i \in 1..3 : TapChoice(i)
  \/ \E idx \in narrTimers : NarrTimerFire(idx)
  \/ SynthStart
  \/ SynthEnd
  \/ StartListening
  \/ StopListening
  \/ \E ev \in ResultEvents : RecResult(ev)
  \/ RecError
  \/ RecEnd
  \/ Complete

Spec == Init /\ [][Next]_vars

TypeOK ==
  /\ service \in Services
  /\ phase \in {"created", "mounted", "completed"}
  /\ isLoading \in BOOLEAN
  /\ genCalls \in 0..(MaxGen + MaxResults + 1)
  /\ Len(scenes) <= genCalls

FairSpec ==
  Spec /\ WF_vars(\E r \in inflight, o \in Outcomes : GenComplete(r, o))

\* the session of Spec in which startListening (288) is also called directly,
\* in whatever state the component is, and not only by the enabled button
ListenNext ==
  \/ Next
  \/ StartListeningCall

ListenSpec == Init /\ [][ListenNext]_vars

\* =============================================== Narration Player in detail
\* Spec above keeps of the synthesis queue only its state (synth).  The
\* specification below follows one displayed scene and refines the queue to
\* the utterances with their handlers, the failsafe and onDone timers of
\* speak, the reveal ticker and the teardown of the component.

\* utterances the synthesis holds at a time (queued, speaking or canceled
\* with their event still to come)
MaxUtter == 3
\* calls of speak per displayed scene
MaxSpeak == 1
\* reveal ticks followed per narrative (longer narratives are cut to this)
MaxReveal == 1

\* what stays as it is while a scene is displayed and narrated
storyRest == <<params, scenes, currentSceneIndex, isLoading, isListening, transcript,
               isAwaitingFeedback, isProcessing, hasSpokenForScene, feedbackTimeout,
               inflight, recState, results, synth, genCalls, forwarded>>

\* String.prototype.length of a narrative, up to MaxReveal
Length(t) == CASE t = "" -> 0 [] t = "A" -> 1 [] OTHER -> MaxReveal

\* Storybook.tsx:222-223: one of STORY_FOLLOW_UP_QUESTIONS_*
FollowUpQuestion == "What happens next?"

\* an utterance of the narration whose end or error always clears the flag
Utterance_allClear(kind, text, clears) ==
  [kind |-> kind, text |-> text, st |-> "queued", hasStarted |-> FALSE,
   handlers |-> TRUE, clears |-> (kind # "speak"), failsafe |-> (kind = "speak"),
   resolved |-> (kind # "speak")]

\* Storybook.tsx:77-133 (kind "speak") and 193-237 (kind "scene", "question"):
\* a new SpeechSynthesisUtterance with its closure
\*   st         "queued" | "speaking" | "canceled" (removed by cancel(), its
\*              end/error event not delivered yet); an utterance whose end or
\*              error event was delivered is dropped from utts
\*   hasStarted line 107/129
\*   handlers   onend / onerror are attached (line 111 detaches them)
\*   clears     its end/error clears the speaking flag (finalUtterance, 232)
\*   failsafe   the 3 s timer of line 108 is pending
\*   resolved   the promise of speak has resolved
Utterance(kind, text, clears) ==
  [kind |-> kind, text |-> text, st |-> "queued", hasStarted |-> FALSE,
   handlers |-> TRUE, clears |-> clears, failsafe |-> (kind = "speak"),
   resolved |-> (kind # "speak")]

\* window.speechSynthesis.cancel(): every utterance leaves the queue
Cancel(us) ==
  [i \in DOMAIN us |->
     IF us[i].st \in {"queued", "speaking"} THEN [us[i] EXCEPT !.st = "canceled"]
     ELSE us[i]]

\* window.speechSynthesis.speaking (line 120)
SynthSpeaking(us) == \E i \in DOMAIN us : us[i].st = "speaking"

\* Storybook.tsx:71-142: speak(text, lang) on the queue
Speak(us, text) ==
  IF SpeakSubmits(text) THEN Append(us, Utterance("speak", text, FALSE)) ELSE us

\* an answer whose choice list holds an empty string (part_001:206 and
\* part_002:141-145 pass the entries on as received)
BlankChoiceScene == Scene("A", TRUE, <<"c1", "">>)

\* the first scene as the linked client can return it
SpeechScenes(svc, lang) ==
  {GenerationClient(svc, "initial", o, lang).scene : o \in Outcomes}
    \cup {BlankChoiceScene}

\* the component right after its first scene arrived (Storybook.tsx:160-162)
\* and the narration effect ran for it (181-264)
SpeechInit ==
  /\ AppOnStory
  /\ language = "en-US"
  /\ hasRecognition = TRUE
  /\ phase = "mounted"
  /\ scenes \in {<<s>> : s \in UNION {SpeechScenes(svc, language) : svc \in Services}}
  /\ service = CHOOSE svc \in Services : scenes[1] \in SpeechScenes(svc, language)
  /\ currentSceneIndex = 0
  /\ isLoading = FALSE
  /\ isListening = FALSE
  /\ transcript = ""
  /\ isAwaitingFeedback = FALSE
  /\ isSpeaking = FALSE
  /\ isProcessing = FALSE
  /\ hasSpokenForScene = (IF scenes[1].text # "" THEN {0} ELSE {})
  /\ narrTimers = hasSpokenForScene
  /\ feedbackTimeout = 0
  /\ timers = {}
  /\ inflight = {}
  /\ recState = "idle"
  /\ handlers = FALSE
  /\ results = 0
  /\ synth = "idle"
  /\ genCalls = 1
  /\ forwarded = <<>>
  /\ utts = <<>>
  /\ doneTimers = 0
  /\ revealed = 0
  /\ ticker = (scenes[1].text # "")
  /\ tickerOf = scenes[1].text
  /\ displayedOf = ""
  /\ speakCalls = 0
  /\ speakResolved = 0

\* Storybook.tsx:217-247: the 100 ms timer of playNarrationSequence fires
NarrationStart(idx) ==
  /\ idx \in narrTimers
  /\ narrTimers' = narrTimers \ {idx}
  /\ LET s == scenes[idx + 1]
         chain == IF s.hasChoices /\ Len(s.choices) > 0
                  THEN <<Utterance("scene", s.text, FALSE),
                         Utterance("question", FollowUpQuestion, TRUE)>>
                  ELSE <<Utterance("scene", s.text, TRUE)>>
     IN utts' = IF phase = "mounted" THEN Cancel(utts) \o chain ELSE utts
  /\ UNCHANGED <<storyRest, appVars, phase, isSpeaking, timers, handlers,
                 doneTimers, revealed, ticker, revealVars, speakCalls, speakResolved>>

\* the synthesis begins the utterance at the head of its queue:
\* utterance.onstart (Storybook.tsx:128-131, 229)
UttStart(i) ==
  /\ i \in DOMAIN utts
  /\ utts[i].st = "queued"
  /\ ~SynthSpeaking(utts)
  /\ \A j \in 1..(i - 1) : utts[j].st # "queued"
  /\ utts' = [utts EXCEPT ![i].st = "speaking", ![i].hasStarted = TRUE]
  /\ isSpeaking' = IF phase = "mounted" /\ utts[i].kind \in {"speak", "scene"}
                   THEN TRUE ELSE isSpeaking
  /\ UNCHANGED <<storyRest, appVars, phase, narrTimers, timers, handlers,
                 doneTimers, revealed, ticker, revealVars, speakCalls, speakResolved>>

\* an end or error event can be delivered for the utterance
Finishable(i) ==
  /\ i \in DOMAIN utts
  /\ \/ utts[i].st \in {"speaking", "canceled"}
     \/ utts[i].st = "queued" /\ ~SynthSpeaking(utts)
          /\ \A j \in 1..(i - 1) : utts[j].st # "queued"

\* the sequence without its i-th entry
Drop(us, i) == SubSeq(us, 1, i - 1) \o SubSeq(us, i + 1, Len(us))

\* the utterance's end or error event: onDone of speak (Storybook.tsx:116-138,
\* which also clears the failsafe timer), onend / onerror of the narration
\* chain (230-237)
UttFinish(i) ==
  /\ Finishable(i)
  /\ LET u == utts[i]
         done == u.kind = "speak" /\ u.handlers
     IN /\ utts' = Drop(utts, i)
        /\ speakResolved' = IF done /\ ~u.resolved THEN speakResolved + 1
                            ELSE speakResolved
        /\ doneTimers' = IF done /\ phase = "mounted" THEN doneTimers + 1
                         ELSE doneTimers
        /\ isSpeaking' = IF u.kind # "speak" /\ u.clears /\ phase = "mounted"
                         THEN FALSE ELSE isSpeaking
  /\ UNCHANGED <<storyRest, appVars, phase, narrTimers, timers, handlers,
                 revealed, ticker, revealVars, speakCalls>>

\* a failsafe that forgets to resolve
FailsafeFire_noResolve(i) ==
  /\ i \in DOMAIN utts
  /\ utts[i].failsafe
  /\ utts' = [utts EXCEPT ![i].failsafe = FALSE,
                          ![i].handlers = IF utts[i].hasStarted THEN utts[i].handlers
                                          ELSE FALSE]
  /\ UNCHANGED <<storyRest, appVars, phase, isSpeaking, narrTimers, timers,
                 handlers, doneTimers, revealed, ticker, revealVars, speakCalls, speakResolved>>

\* Storybook.tsx:108-114: the failsafe timer of speak fires
FailsafeFire(i) ==
  /\ i \in DOMAIN utts
  /\ utts[i].failsafe
  /\ LET u == utts[i]
     IN /\ utts' = [utts EXCEPT ![i].failsafe = FALSE,
                                ![i].handlers = IF u.hasStarted THEN u.handlers ELSE FALSE,
                                ![i].resolved = IF u.hasStarted THEN u.resolved ELSE TRUE]
        /\ speakResolved' = IF ~u.hasStarted /\ ~u.resolved THEN speakResolved + 1
                            ELSE speakResolved
  /\ UNCHANGED <<storyRest, appVars, phase, isSpeaking, narrTimers, timers,
                 handlers, doneTimers, revealed, ticker, revealVars, speakCalls>>

\* Storybook.tsx:119-123: the 50 ms timer of onDone fires
DoneTimerFire ==
  /\ doneTimers > 0
  /\ doneTimers' = doneTimers - 1
  /\ isSpeaking' = IF ~SynthSpeaking(utts) /\ phase = "mounted" THEN FALSE
                   ELSE isSpeaking
  /\ UNCHANGED <<storyRest, appVars, phase, narrTimers, timers, handlers, utts,
                 revealed, ticker, revealVars, speakCalls, speakResolved>>

\* Storybook.tsx:255-262: one tick of the reveal interval
RevealTick ==
  /\ ticker
  /\ IF revealed < Length(tickerOf)
     THEN revealed' = revealed + 1 /\ displayedOf' = tickerOf /\ ticker' = ticker
     ELSE revealed' = revealed /\ displayedOf' = displayedOf /\ ticker' = FALSE
  /\ UNCHANGED <<tickerOf, storyRest, appVars, phase, isSpeaking, narrTimers, timers,
                 handlers, utts, doneTimers, speakCalls, speakResolved>>

\* room for one more utterance beside the narration still to start
RoomToSpeak ==
  /\ Len(utts) + 2 * Cardinality(narrTimers) < MaxUtter
  /\ speakCalls < MaxSpeak

\* Storybook.tsx:268-271 (button of 404-411): handleSpeakChoice with speak
SpeakChoice(i) ==
  /\ ChoiceButtonEnabled(i)
  /\ RoomToSpeak
  /\ utts' = Speak(Cancel(utts), currentScene.choices[i])
  /\ speakCalls' = speakCalls + 1
  /\ speakResolved' = IF SpeakSubmits(currentScene.choices[i]) THEN speakResolved
                      ELSE speakResolved + 1
  /\ UNCHANGED <<storyRest, appVars, phase, isSpeaking, narrTimers, timers,
                 handlers, doneTimers, revealed, ticker, revealVars>>

\* a replay that does not wait for the reveal
ReplayPermitted_always == currentScene.text # ""

\* Storybook.tsx:277: replay only once the whole narrative is displayed
ReplayPermitted == currentScene.text # "" /\ revealed >= Length(currentScene.text)

\* Storybook.tsx:378-386: the replay/stop button is rendered and enabled
ReplayButtonEnabled ==
  phase = "mounted" /\ HasCurrentScene /\ ~isLoading /\ currentScene.text # ""

\* Storybook.tsx:273-281: handleReplayOrStopAudio
ReplayOrStop ==
  /\ ReplayButtonEnabled
  /\ isSpeaking \/ ~ReplayPermitted \/ RoomToSpeak
  /\ IF isSpeaking
     THEN /\ utts' = Cancel(utts)
          /\ isSpeaking' = FALSE
          /\ UNCHANGED <<speakCalls, speakResolved>>
     ELSE IF ReplayPermitted
     THEN /\ utts' = Speak(Cancel(utts), currentScene.text)
          /\ speakCalls' = speakCalls + 1
          /\ UNCHANGED <<isSpeaking, speakResolved>>
     ELSE UNCHANGED <<utts, isSpeaking, speakCalls, speakResolved>>
  /\ UNCHANGED <<storyRest, appVars, phase, narrTimers, timers, handlers,
                 doneTimers, revealed, ticker, revealVars>>

\* Storybook.tsx:42-45, 167 (cleanupListeners, 61-69) and 264: the cleanups
\* that run when the component is removed from the screen
Unmount ==
  /\ phase = "mounted"
  /\ phase' = "unmounted"
  /\ utts' = Cancel(utts)
  /\ handlers' = FALSE
  /\ timers' = ClearFeedbackTimeout(timers)
  /\ ticker' = FALSE
  /\ UNCHANGED <<storyRest, appVars, isSpeaking, narrTimers, doneTimers, revealed,
                 revealVars, speakCalls, speakResolved>>

SpeechNext ==
  \/ \E idx \in narrTimers : NarrationStart(idx)
  \/ \E i \in 1..MaxUtter : UttStart(i)
  \/ \E i \in 1..MaxUtter : UttFinish(i)
  \/ \E i \in 1..MaxUtter : FailsafeFire(i)
  \/ DoneTimerFire
  \/ RevealTick
  \/ \E i \in 1..3 : SpeakChoice(i)
  \/ ReplayOrStop
  \/ Unmount

SpeechSpec == SpeechInit /\ [][SpeechNext]_vars

\* timers fire, and an utterance that has started ends or fails
FairSpeechSpec ==
  /\ SpeechSpec
  /\ WF_vars(\E i \in 1..MaxUtter : FailsafeFire(i))
  /\ WF_vars(\E i \in DOMAIN utts : utts[i].hasStarted /\ UttFinish(i))

\* as FairSpeechSpec, and the synthesis works through its queue
FairSpeechAll ==
  /\ SpeechSpec
  /\ WF_vars(\E i \in 1..MaxUtter : FailsafeFire(i))
  /\ WF_vars(\E i \in 1..MaxUtter : UttFinish(i))
  /\ WF_vars(\E i \in 1..MaxUtter : UttStart(i))
  /\ WF_vars(DoneTimerFire)
  /\ WF_vars(\E idx \in narrTimers : NarrationStart(idx))

\* ====================================================== application shell
\* Navigation, vocabulary preload and backend speech of the application
\* component, in its two versions: App.tsx ("App") and part_006:1-204
\* ("App006", whose states 'home' | 'vocab' | 'story' are written HOME,
\* VOCAB_TRAINER, STORY).  The screens it renders are left out.

\* preload runs started per session of the application
MaxPreloads == 2
\* speech requests per session of the application
MaxTts == 2
\* times the user goes home
MaxVisits == 2

\* App.tsx:137, part_006:83; './constants' is not among the sources, the
\* round size is followed for this many words
MAX_WORDS_PER_ROUND == 2

Apps == {"App", "App006"}

\* the Storybook variables, which the shell does not touch
storyVars == <<storyRest, phase, isSpeaking, narrTimers, timers, handlers>>

\* App.tsx:251: isSpeaking of the shell (part_006:30 is the state itself)
AppIsSpeaking == isAudioPlaying \/ isAudioLoading

\* no Storybook is on the screen
StoryAbsent ==
  /\ language = "th-TH"
  /\ hasRecognition = TRUE
  /\ phase = "created"
  /\ scenes = <<>>
  /\ currentSceneIndex = 0
  /\ isLoading = TRUE
  /\ isListening = FALSE
  /\ transcript = ""
  /\ isAwaitingFeedback = FALSE
  /\ isSpeaking = FALSE
  /\ isProcessing = FALSE
  /\ hasSpokenForScene = {}
  /\ feedbackTimeout = 0
  /\ timers = {}
  /\ inflight = {}
  /\ recState = "idle"
  /\ handlers = FALSE
  /\ results = 0
  /\ synth = "idle"
  /\ narrTimers = {}
  /\ genCalls = 0
  /\ forwarded = <<>>

\* App.tsx:231-250, part_006:15-30: the shell after construction
AppInit ==
  /\ StoryAbsent
  /\ SpeechIdle
  /\ PreloadIdle
  /\ ClientIdle
  /\ SideIdle
  /\ service = "direct"
  /\ app \in Apps
  /\ gameState = "HOME"
  /\ preloadedData = 0
  /\ fullWordList = 0
  /\ preloads = {}
  /\ preloadCalls = 0
  /\ visits = 0
  /\ appLoading = FALSE
  /\ audioSrc = 0
  /\ isAudioPlaying = FALSE
  /\ isAudioLoading = FALSE
  /\ audioEl = "idle"
  /\ tts = {}
  /\ ttsCalls = 0
  /\ stopped = FALSE

\* App.tsx:281-284 and part_006:59-65: stopSpeech.  App.tsx clears the clip
\* state only (the AudioPlayer effect of 27-32 does nothing for a null src);
\* part_006 pauses the element.
StopSpeech ==
  /\ stopped' = TRUE
  /\ isAudioPlaying' = FALSE
  /\ audioSrc' = 0
  /\ audioEl' = IF app = "App006" THEN "idle" ELSE audioEl

\* App.tsx:124-129 (VocabPreloader mounts) and part_006:68-76, 100-104: a
\* preload run starts and suspends at the vocabulary-list request.
\* stage 0: awaiting the list; stage k: awaiting the image of word k
StartPreload ==
  /\ preloadCalls' = preloadCalls + 1
  /\ preloads' = preloads \cup {[id |-> preloadCalls + 1, entry |-> visits, stage |-> 0]}

\* App.tsx:290-295 / part_006:106-108 with the effect of 100-104: handleStart
HandleStart ==
  /\ gameState = "HOME"
  /\ IF app = "App"
     THEN /\ StopSpeech
          /\ gameState' = "MODE_SELECTION"
          /\ UNCHANGED <<preloads, preloadCalls, appLoading>>
     ELSE /\ gameState' = "VOCAB_TRAINER"
          /\ preloadedData = 0 => preloadCalls < MaxPreloads
          /\ IF preloadedData = 0
             THEN StartPreload /\ appLoading' = TRUE
             ELSE UNCHANGED <<preloads, preloadCalls, appLoading>>
          /\ UNCHANGED <<stopped, isAudioPlaying, audioSrc, audioEl>>
  /\ UNCHANGED <<storyVars, speechVars, preloadVars, clientVars, sideVars, app, preloadedData, fullWordList, visits,
                 isAudioLoading, tts, ttsCalls>>

\* App.tsx:302-307 (button of line 104) and the mount of VocabPreloader (349)
HandleModeSelected ==
  /\ app = "App"
  /\ gameState = "MODE_SELECTION"
  /\ ~AppIsSpeaking
  /\ preloadCalls < MaxPreloads
  /\ StopSpeech
  /\ gameState' = "PRELOADING_VOCAB"
  /\ StartPreload
  /\ UNCHANGED <<storyVars, speechVars, preloadVars, clientVars, sideVars, app, preloadedData, fullWordList, visits,
                 appLoading, isAudioLoading, tts, ttsCalls>>

\* App.tsx:125-149 with handleVocabPreloadComplete (317-321), and
\* part_006:76-96: the awaited list or image arrives and the run goes on to
\* its next await or to its end
PreloadStep(p) ==
  /\ p \in preloads
  /\ IF p.stage < MAX_WORDS_PER_ROUND
     THEN /\ preloads' = (preloads \ {p}) \cup {[p EXCEPT !.stage = p.stage + 1]}
          /\ fullWordList' = IF app = "App006" /\ p.stage = 0 THEN p.id ELSE fullWordList
          /\ UNCHANGED <<preloadedData, gameState, appLoading>>
     ELSE /\ preloads' = preloads \ {p}
          /\ preloadedData' = p.id
          /\ IF app = "App"
             THEN /\ fullWordList' = p.id
                  /\ gameState' = "VOCAB_TRAINER"
                  /\ UNCHANGED appLoading
             ELSE /\ appLoading' = FALSE
                  /\ UNCHANGED <<fullWordList, gameState>>
  /\ UNCHANGED <<storyVars, speechVars, preloadVars, clientVars, sideVars, app, preloadCalls, visits, audioSrc,
                 isAudioPlaying, isAudioLoading, audioEl, tts, ttsCalls, stopped>>

\* App.tsx:297-300 (button of 384-393) / part_006:122-128 (178-182)
HandleGoHome ==
  /\ gameState # "HOME"
  /\ visits < MaxVisits
  /\ StopSpeech
  /\ gameState' = "HOME"
  /\ visits' = visits + 1
  /\ preloadedData' = IF app = "App006" THEN 0 ELSE preloadedData
  /\ UNCHANGED <<storyVars, speechVars, preloadVars, clientVars, sideVars, app, fullWordList, preloads, preloadCalls,
                 appLoading, isAudioLoading, tts, ttsCalls>>

\* App.tsx:323-327 / part_006:110-113 (the trainer is shown, 131-153)
HandleVocabComplete ==
  /\ gameState = "VOCAB_TRAINER"
  /\ IF app = "App"
     THEN StopSpeech /\ gameState' = "STORY_TONE_SELECTION"
     ELSE /\ ~appLoading
          /\ gameState' = "STORY"
          /\ UNCHANGED <<stopped, isAudioPlaying, audioSrc, audioEl>>
  /\ UNCHANGED <<storyVars, speechVars, preloadVars, clientVars, sideVars, app, preloadedData, fullWordList, preloads,
                 preloadCalls, visits, appLoading, isAudioLoading, tts, ttsCalls>>

\* App.tsx:329-333 (button of 217-223)
HandleToneSelected ==
  /\ app = "App"
  /\ gameState = "STORY_TONE_SELECTION"
  /\ ~AppIsSpeaking
  /\ StopSpeech
  /\ gameState' = "STORY"
  /\ UNCHANGED <<storyVars, speechVars, preloadVars, clientVars, sideVars, app, preloadedData, fullWordList, preloads,
                 preloadCalls, visits, appLoading, isAudioLoading, tts, ttsCalls>>

\* App.tsx:335-340 / part_006:115-120 with the effect of 100-104
HandleStoryComplete ==
  /\ gameState = "STORY"
  /\ IF app = "App"
     THEN /\ StopSpeech
          /\ gameState' = "MODE_SELECTION"
          /\ UNCHANGED <<preloadedData, preloads, preloadCalls, appLoading>>
     ELSE /\ preloadCalls < MaxPreloads
          /\ gameState' = "VOCAB_TRAINER"
          /\ preloadedData' = 0
          /\ StartPreload
          /\ appLoading' = TRUE
          /\ UNCHANGED <<stopped, isAudioPlaying, audioSrc, audioEl>>
  /\ UNCHANGED <<storyVars, speechVars, preloadVars, clientVars, sideVars, app, fullWordList, visits, isAudioLoading,
                 tts, ttsCalls>>

\* a screen that calls the speak prop is shown and lets the user click:
\* App.tsx:58-60, 184-186 (disabled while isSpeaking); part_006:150, 161
SpeakOffered ==
  IF app = "App"
  THEN gameState \in {"MODE_SELECTION", "STORY_TONE_SELECTION"} /\ ~AppIsSpeaking
  ELSE gameState \in {"VOCAB_TRAINER", "STORY"} /\ ~appLoading

\* App.tsx:253-263 / part_006:33-44: speak(text) up to its fetch, text not empty
SpeakClick ==
  /\ SpeakOffered
  /\ ttsCalls < MaxTts
  /\ stopped' = FALSE
  /\ IF app = "App"
     THEN IF isAudioLoading
          THEN UNCHANGED <<isAudioLoading, isAudioPlaying, audioSrc, tts, ttsCalls>>
          ELSE /\ isAudioLoading' = TRUE
               /\ audioSrc' = 0
               /\ tts' = tts \cup {ttsCalls + 1}
               /\ ttsCalls' = ttsCalls + 1
               /\ UNCHANGED isAudioPlaying
     ELSE /\ isAudioPlaying' = TRUE
          /\ tts' = tts \cup {ttsCalls + 1}
          /\ ttsCalls' = ttsCalls + 1
          /\ UNCHANGED <<isAudioLoading, audioSrc>>
  /\ UNCHANGED <<storyVars, speechVars, preloadVars, clientVars, sideVars, app, gameState, preloadedData, fullWordList,
                 preloads, preloadCalls, visits, appLoading, audioEl>>

\* App.tsx:265-278 with the AudioPlayer effect (27-32, 39) / part_006:45-56:
\* the speech request returns; ok: the backend answered 2xx with a clip;
\* plays: the element's play() is honoured
TtsResolve(r, ok, plays) ==
  /\ r \in tts
  /\ tts' = tts \ {r}
  /\ IF app = "App"
     THEN /\ isAudioLoading' = FALSE
          /\ audioSrc' = IF ok THEN r ELSE audioSrc
          /\ audioEl' = IF ok /\ plays THEN "playing" ELSE audioEl
          /\ isAudioPlaying' = IF ok /\ plays THEN TRUE ELSE isAudioPlaying
     ELSE /\ audioEl' = IF ok /\ plays THEN "playing" ELSE audioEl
          /\ isAudioPlaying' = IF ok THEN isAudioPlaying ELSE FALSE
          /\ UNCHANGED <<isAudioLoading, audioSrc>>
  /\ UNCHANGED <<storyVars, speechVars, preloadVars, clientVars, sideVars, app, gameState, preloadedData, fullWordList,
                 preloads, preloadCalls, visits, appLoading, ttsCalls, stopped>>

\* App.tsx:34-37 with handleAudioEnded (286-288) / part_006:173: the clip ends
AudioEnded ==
  /\ audioEl = "playing"
  /\ audioEl' = "idle"
  /\ isAudioPlaying' = FALSE
  /\ audioSrc' = 0
  /\ UNCHANGED <<storyVars, speechVars, preloadVars, clientVars, sideVars, app, gameState, preloadedData, fullWordList,
                 preloads, preloadCalls, visits, appLoading, isAudioLoading, tts,
                 ttsCalls, stopped>>

AppNext ==
  \/ HandleStart
  \/ HandleModeSelected
  \/ \E p \in preloads : PreloadStep(p)
  \/ HandleGoHome
  \/ HandleVocabComplete
  \/ HandleToneSelected
  \/ HandleStoryComplete
  \/ SpeakClick
  \/ \E r \in tts, ok \in BOOLEAN, plays \in BOOLEAN : TtsResolve(r, ok, plays)
  \/ AudioEnded

AppSpec == AppInit /\ [][AppNext]_vars

\* SettingsModal (App.tsx:405-416, part_006:188-199): a setting is changed
\* while the shell is shown.  App.tsx offers the image setting, part_006 also
\* the language.  The render that follows runs the effects whose
\* dependencies changed: the effect of VocabPreloader (App.tsx:124-149, deps
\* [category, onComplete, isImageGenerationEnabled]) while the preloader is
\* shown, and the effect of part_006:100-104 through the new identity of
\* preloadDataForVocabTrainer (deps [isImageGenerationEnabled, language], 97).
\* Neither effect has a cleanup, so the run already started goes on.
SettingChanged(setting) ==
  /\ setting \in (IF app = "App" THEN {"image"} ELSE {"image", "language"})
  /\ isImageGenerationEnabled' =
       IF setting = "image" THEN ~isImageGenerationEnabled ELSE isImageGenerationEnabled
  /\ language' = IF setting = "language"
                 THEN (IF language = "th-TH" THEN "en-US" ELSE "th-TH")
                 ELSE language
  /\ LET rerun == IF app = "App"
                  THEN gameState = "PRELOADING_VOCAB"
                  ELSE gameState = "VOCAB_TRAINER" /\ preloadedData = 0
     IN /\ rerun => preloadCalls < MaxPreloads
        /\ IF rerun
           THEN /\ StartPreload
                /\ appLoading' = IF app = "App006" THEN TRUE ELSE appLoading
           ELSE UNCHANGED <<preloads, preloadCalls, appLoading>>
  /\ UNCHANGED <<service, hasRecognition, scenes, currentSceneIndex, isLoading,
                 isListening, transcript, isAwaitingFeedback, isProcessing,
                 hasSpokenForScene, feedbackTimeout, inflight, recState, results,
                 synth, genCalls, forwarded, phase, isSpeaking, narrTimers, timers,
                 handlers, speechVars, preloadPc, wordList, wordsForRound,
                 preloadedItems, imageRequests, alerts, clientVars, sideVars, app,
                 gameState, preloadedData, fullWordList, visits, audioSrc,
                 isAudioPlaying, isAudioLoading, audioEl, tts, ttsCalls, stopped>>

SettingsNext ==
  \/ AppNext
  \/ \E setting \in {"image", "language"} : SettingChanged(setting)

\* the shell with its settings dialog
SettingsSpec == AppInit /\ [][SettingsNext]_vars

\* =============================================== vocabulary preload in detail
\* One preload run of the shell with the Generation Client it is linked
\* against: App.tsx:123-152 ("App"), part_006:68-97 ("App006") and
\* part_006:452-502 ("App006b").  In this specification preloadedData and
\* fullWordList hold the stored items and list themselves.

\* entries of a word list the backend returns, and of the word bank
MaxWords == 3

Preloaders == {"App", "App006", "App006b"}

EnglishOf == <<"ant", "bee", "cow", "dog", "eel", "fox">>

\* types.ts: Word
Word(k) == [thai |-> "TH: " \o EnglishOf[k], english |-> EnglishOf[k]]

WordsUpTo(n) == [k \in 1..n |-> Word(k)]

\* the word bank of './constants' (not among the sources): a hardcoded list
\* per category, taken to hold MaxWords words
VOCABULARY == WordsUpTo(MaxWords)

\* part_000:38, part_001:59: the sentinel word
ErrorWord == [thai |-> "TH: error", english |-> "error"]

\* what `undefined` is written as
Undefined == "undefined"

\* ---------------------------------------------- part_000 over one fetch
\* One answer to the POST of callApi:
\*   net     "ok" | "fail"   fetch resolved / rejected
\*   status  the HTTP status
\*   json    the body parses as JSON
\*   body    the parsed body: [tag |-> "null"], [tag |-> "list", list |-> ..],
\*           [tag |-> "obj", has |-> the awaited key is present, val |-> its value]
FetchAnswer(net, status, json, body) ==
  [net |-> net, status |-> status, json |-> json, body |-> body]

NullBody == [tag |-> "null"]

ListBody(l) == [tag |-> "list", list |-> l]

ObjBody(has, v) == [tag |-> "obj", has |-> has, val |-> v]

Returned(v) == [rejected |-> FALSE, value |-> v]

Thrown == [rejected |-> TRUE, value |-> Undefined]

\* part_000:10-29: fetch rejects; a non-2xx answer throws (its body parsed or
\* not); response.json() of a 2xx answer rejects on a body that is not JSON
callApiFetch(f) ==
  IF f.net = "fail" \/ f.status # 200 \/ ~f.json THEN Thrown ELSE Returned(f.body)

\* a client that hands on the error body of a non-2xx answer
generateVocabularyList000_errorBody(f) ==
  IF callApiFetch(f).rejected
  THEN IF f.net = "ok" /\ f.json THEN Returned(f.body) ELSE Returned(ListBody(<<ErrorWord>>))
  ELSE callApiFetch(f)

\* part_000:33-40: the parsed body is returned as it is
generateVocabularyList000(f) ==
  IF callApiFetch(f).rejected THEN Returned(ListBody(<<ErrorWord>>))
  ELSE callApiFetch(f)

\* part_000:49, part_001:83, part_002:78, App.tsx:144 (the words followed hold
\* no white space, so the replace(/\s/g, '') of the lock leaves them)
FallbackImage(word) ==
  "https://loremflickr.com/400/300/" \o word \o ",illustration,simple?lock=" \o word

\* a generated data URI
GeneratedImage(word) == "data:image/jpeg;base64," \o word

\* part_000:42-51: result.imageUrl throws on null inside the try
generateVocabImage000(word, f) ==
  IF callApiFetch(f).rejected \/ callApiFetch(f).value.tag = "null"
  THEN Returned(FallbackImage(word))
  ELSE IF callApiFetch(f).value.tag = "obj" /\ callApiFetch(f).value.has
       THEN Returned(callApiFetch(f).value.val)
       ELSE Returned(Undefined)

\* part_000:123
FallbackTitle(lang) == IF lang = "th-TH" THEN "TH: A Wonderful Story" ELSE "A Wonderful Story"

\* part_000:116-125
generateStoryTitle000(lang, f) ==
  IF callApiFetch(f).rejected \/ callApiFetch(f).value.tag = "null"
  THEN Returned(FallbackTitle(lang))
  ELSE IF callApiFetch(f).value.tag = "obj" /\ callApiFetch(f).value.has
       THEN Returned(callApiFetch(f).value.val)
       ELSE Returned(Undefined)

\* ------------------------------------------- the three clients, vocabulary
\* the generative backend's answer to a vocabulary request: a failure or a
\* JSON array of n words
VocabOutcomes == {[ok |-> FALSE, n |-> 0]} \cup {[ok |-> TRUE, n |-> n] : n \in 0..MaxWords}

\* part_005:60-73, 128-131 and generate-speech.ts:184-215, 331-350: the
\* handler answers 200 with the array or 500
VocabFetch(o) ==
  IF o.ok THEN FetchAnswer("ok", 200, TRUE, ListBody(WordsUpTo(o.n)))
  ELSE FetchAnswer("ok", 500, TRUE, ObjBody(FALSE, Undefined))

Min(a, b) == IF a < b THEN a ELSE b

\* Array.prototype.slice(0, n)
Slice(l, n) == SubSeq(l, 1, Min(n, Len(l)))

\* part_000:33-40, part_001:28-61, part_002:9-51
generateVocabularyList(svc, o) ==
  CASE svc \in {"api005", "apiGS"} -> generateVocabularyList000(VocabFetch(o)).value.list
    [] svc = "direct" -> IF ~o.ok \/ o.n = 0 THEN <<ErrorWord>> ELSE Slice(WordsUpTo(o.n), 5)
    [] OTHER -> IF ~o.ok \/ o.n = 0 THEN VOCABULARY ELSE WordsUpTo(o.n)

\* the image backend's answer: an image, a failure, a failure whose message
\* holds 'quota exceeded', one whose message holds 'RESOURCE_EXHAUSTED'
ImageOutcomes == {"ok", "fail", "quota", "exhausted"}

\* part_005:75-84, generate-speech.ts: the image handler answers 200 with
\* {imageUrl} or 500
ImageFetch(word, io) ==
  IF io = "ok" THEN FetchAnswer("ok", 200, TRUE, ObjBody(TRUE, GeneratedImage(word)))
  ELSE FetchAnswer("ok", 500, TRUE, ObjBody(FALSE, Undefined))

\* a client that raises the notice on every failure
ImageNotice_anyFailure(io) == io # "ok"

\* part_002:74-77, 105-108: the message of the error names the quota
ImageNotice(io) == io \in {"quota", "exhausted"}

\* part_000:42-51, part_001:66-85, part_002:54-80: the URI and whether the
\* quota notice of part_002:75-77 is raised
generateVocabImage(svc, word, io) ==
  CASE svc \in {"api005", "apiGS"} ->
         [url |-> generateVocabImage000(word, ImageFetch(word, io)).value, alert |-> FALSE]
    [] svc = "direct" ->
         [url |-> IF io = "ok" THEN GeneratedImage(word) ELSE FallbackImage(word), alert |-> FALSE]
    [] OTHER ->
         [url |-> IF io = "ok" THEN GeneratedImage(word) ELSE FallbackImage(word),
          alert |-> io # "ok" /\ ImageNotice(io)]

\* ------------------------------------------------------- the preload run
audioVars == <<audioSrc, isAudioPlaying, isAudioLoading, audioEl, tts, ttsCalls>>

\* the shell on its preload screen, the run not yet started
PreloadInit ==
  /\ StoryAbsent
  /\ SpeechIdle
  /\ ClientIdle
  /\ SideIdle
  /\ service \in Services
  /\ app \in Preloaders
  /\ isImageGenerationEnabled \in BOOLEAN
  /\ gameState = IF app = "App006" THEN "VOCAB_TRAINER" ELSE "PRELOADING_VOCAB"
  /\ preloadedData = <<>>
  /\ fullWordList = <<>>
  /\ preloads = {}
  /\ preloadCalls = 0
  /\ visits = 0
  /\ appLoading = FALSE
  /\ audioSrc = 0
  /\ isAudioPlaying = FALSE
  /\ isAudioLoading = FALSE
  /\ audioEl = "idle"
  /\ tts = {}
  /\ ttsCalls = 0
  /\ stopped = FALSE
  /\ preloadPc = "start"
  /\ wordList = <<>>
  /\ wordsForRound = <<>>
  /\ preloadedItems = <<>>
  /\ imageRequests = {}
  /\ alerts = 0

\* App.tsx:131-135: the Fisher-Yates shuffle leaves any order
Shuffles(l) == {[k \in DOMAIN l |-> l[f[k]]] : f \in Permutations(DOMAIN l)}

\* the run with list L, round words R, URIs `items` ("" = not there yet) and
\* image requests `reqs` in flight goes to its next await or ends:
\* App.tsx:148 with handleVocabPreloadComplete (317-321); part_006:81, 94-96;
\* part_006:468, 493-497
Settle(L, R, items, reqs) ==
  /\ wordList' = L
  /\ wordsForRound' = R
  /\ preloadedItems' = items
  /\ imageRequests' = reqs
  /\ preloadPc' = IF reqs = {} THEN "done" ELSE "images"
  /\ preloadedData' = IF reqs = {}
                      THEN [k \in DOMAIN R |-> [word |-> R[k], imageUrl |-> items[k]]]
                      ELSE preloadedData
  /\ fullWordList' = IF app = "App" /\ reqs # {} THEN fullWordList ELSE L
  /\ gameState' = IF reqs = {} /\ app # "App006" THEN "VOCAB_TRAINER" ELSE gameState
  /\ appLoading' = IF app = "App006" THEN reqs # {} ELSE appLoading
  /\ UNCHANGED stopped

\* the run has its list L: App.tsx:137-146, part_006:81-92, part_006:468-491
StartImages(L) ==
  IF app = "App006b" /\ Len(L) < MAX_WORDS_PER_ROUND
  THEN /\ wordList' = L
       /\ fullWordList' = L
       /\ preloadPc' = "done"
       /\ gameState' = "HOME"
       /\ stopped' = TRUE
       /\ UNCHANGED <<wordsForRound, preloadedItems, imageRequests, preloadedData,
                      appLoading>>
  ELSE LET R == Slice(L, MAX_WORDS_PER_ROUND) IN
       IF ~isImageGenerationEnabled
       THEN Settle(L, R, [k \in DOMAIN R |-> FallbackImage(R[k].english)], {})
       ELSE Settle(L, R, [k \in DOMAIN R |-> ""],
                   IF app = "App006b" THEN DOMAIN R
                   ELSE IF R = <<>> THEN {} ELSE {1})

\* whether the run asks the backend for its list: App.tsx:127-129,
\* part_006:76, part_006:457-461 (isDebugMode)
AsksBackend(isDebugMode) ==
  CASE app = "App" -> isImageGenerationEnabled
    [] app = "App006" -> TRUE
    [] OTHER -> ~isDebugMode

\* App.tsx:124-129, part_006:68-76, part_006:452-466: the effect starts the run
PreloadBegin(isDebugMode) ==
  /\ preloadPc = "start"
  /\ IF AsksBackend(isDebugMode)
     THEN /\ preloadPc' = "list"
          /\ appLoading' = (app = "App006")
          /\ UNCHANGED <<wordList, wordsForRound, preloadedItems, imageRequests,
                         preloadedData, fullWordList, gameState, stopped>>
     ELSE IF app = "App"
          THEN \E L \in Shuffles(VOCABULARY) : StartImages(L)
          ELSE StartImages(VOCABULARY)
  /\ UNCHANGED <<storyVars, speechVars, audioVars, clientVars, sideVars, app, isImageGenerationEnabled,
                 preloads, preloadCalls, visits, alerts>>

\* App.tsx:128-137, part_006:76-83, part_006:461-476: the list arrives
ListArrives(o) ==
  /\ preloadPc = "list"
  /\ IF app = "App"
     THEN \E L \in Shuffles(generateVocabularyList(service, o)) : StartImages(L)
     ELSE StartImages(generateVocabularyList(service, o))
  /\ UNCHANGED <<storyVars, speechVars, audioVars, clientVars, sideVars, app, isImageGenerationEnabled,
                 preloads, preloadCalls, visits, alerts>>

\* App.tsx:142-146, part_006:88-91, part_006:482-493: the image of position k
\* arrives; the sequential loops ask for the next one, Promise.all waits for
\* the rest
ImageArrives(k, io) ==
  /\ preloadPc = "images"
  /\ k \in imageRequests
  /\ LET res == generateVocabImage(service, wordsForRound[k].english, io) IN
       /\ alerts' = alerts + (IF res.alert THEN 1 ELSE 0)
       /\ Settle(wordList, wordsForRound, [preloadedItems EXCEPT ![k] = res.url],
                 IF app = "App006b" THEN imageRequests \ {k}
                 ELSE IF k < Len(wordsForRound) THEN {k + 1} ELSE {})
  /\ UNCHANGED <<storyVars, speechVars, audioVars, clientVars, sideVars, app, isImageGenerationEnabled,
                 preloads, preloadCalls, visits>>

PreloadNext ==
  \/ \E isDebugMode \in BOOLEAN : PreloadBegin(isDebugMode)
  \/ \E o \in VocabOutcomes : ListArrives(o)
  \/ \E k \in imageRequests, io \in ImageOutcomes : ImageArrives(k, io)

PreloadSpec == PreloadInit /\ [][PreloadNext]_vars

\* ================================================ Generation Client by call
\* The operations of the Generation Client applied one call after another to
\* whatever the backend answers; lastCall and prevCall record the last two
\* calls with their result.

\* the operations: part_000:33, 42, 88, 116
Ops == {"vocabularyList", "image", "scene", "title"}

\* the awaited key of the answer: result.imageUrl (part_000:46), result.title
\* (part_000:120); the list and the scene are the body itself
FetchBodies ==
  { NullBody, ListBody(<<>>), ListBody(WordsUpTo(MAX_WORDS_PER_ROUND)),
    ObjBody(FALSE, Undefined), ObjBody(TRUE, "value") }

\* the answers of one POST that callApi tells apart: no answer, a body that
\* is not JSON, the error object of the handler (part_005:128-131), and a
\* 2xx answer with each body
FetchAnswers ==
  {FetchAnswer("fail", 0, FALSE, NullBody)}
    \cup {FetchAnswer("ok", st, FALSE, NullBody) : st \in {200, 500}}
    \cup {FetchAnswer("ok", 500, TRUE, ObjBody(FALSE, Undefined))}
    \cup {FetchAnswer("ok", 200, TRUE, b) : b \in FetchBodies}

SceneBody(s) == [tag |-> "scene", scene |-> s]

\* part_000:88-99 over one fetch: the parsed body is returned as it is
generateSceneFetch(f) ==
  IF callApiFetch(f).rejected THEN Returned(SceneBody(FallbackScene))
  ELSE callApiFetch(f)

\* the fallback value of an operation of part_000: lines 38, 49, 93-97, 123
Fallback000(op, lang, word) ==
  CASE op = "vocabularyList" -> ListBody(<<ErrorWord>>)
    [] op = "image" -> FallbackImage(word)
    [] op = "scene" -> SceneBody(FallbackScene)
    [] OTHER -> FallbackTitle(lang)

\* an operation without its try/catch
Operation000_noCatch(op, lang, word, f) == callApiFetch(f)

\* part_000:33-125: the operation applied to one answer
Operation000(op, lang, word, f) ==
  CASE op = "vocabularyList" -> generateVocabularyList000(f)
    [] op = "image" -> generateVocabImage000(word, f)
    [] op = "scene" -> generateSceneFetch(f)
    [] OTHER -> generateStoryTitle000(lang, f)

\* part_002:82-111 (generateImage): no call at all with the setting off
FallbackSceneImage == "https://loremflickr.com/1280/720/storybook,magic,adventure?lock=story"

\* part_002:54-80 (generateVocabImage) and 82-111 (generateImage)
Image002(which, word, enabled, io) ==
  IF which = "scene" /\ ~enabled
  THEN [url |-> FallbackSceneImage, alert |-> FALSE, called |-> FALSE]
  ELSE [url |-> IF io = "ok" THEN GeneratedImage(word)
                ELSE IF which = "scene" THEN FallbackSceneImage ELSE FallbackImage(word),
        alert |-> io # "ok" /\ ImageNotice(io),
        called |-> TRUE]

\* part_001:252, part_002:279
FallbackTitleOf(svc, lang) ==
  CASE svc = "direct" -> FallbackTitle(lang)
    [] OTHER -> IF lang = "th-TH" THEN "TH: My Story" ELSE "My Story"

\* the text backend's answer to a title request
TitleOutcomes == {"ok", "empty", "fail"}

\* part_001:234-254, part_002:261-281 (an empty title is kept by part_001)
generateStoryTitle(svc, lang, to) ==
  CASE to = "fail" -> FallbackTitleOf(svc, lang)
    [] to = "empty" -> IF svc = "direct" THEN "" ELSE FallbackTitleOf(svc, lang)
    [] OTHER -> "A title"

ClientInit ==
  /\ StoryAbsent
  /\ SpeechIdle
  /\ PreloadIdle
  /\ ClientIdle
  /\ SideIdle
  /\ service \in Services
  /\ app = "App"
  /\ gameState = "HOME"
  /\ preloadedData = 0
  /\ fullWordList = 0
  /\ preloads = {}
  /\ preloadCalls = 0
  /\ visits = 0
  /\ appLoading = FALSE
  /\ audioSrc = 0
  /\ isAudioPlaying = FALSE
  /\ isAudioLoading = FALSE
  /\ audioEl = "idle"
  /\ tts = {}
  /\ ttsCalls = 0
  /\ stopped = FALSE

\* a call is made and returns
Record(c) ==
  /\ lastCall' = c
  /\ prevCall' = lastCall
  /\ UNCHANGED <<storyVars, speechVars, preloadVars, audioVars, sideVars, app, gameState,
                 preloadedData, fullWordList, preloads, preloadCalls, visits,
                 appLoading, stopped>>

\* part_000: one operation over one answer of the serverless function
Call000(op, lang, word, f) ==
  /\ service \in {"api005", "apiGS"}
  \* the word is read by generateVocabImage, the language by generateStoryTitle
  /\ op # "image" => word = "ant"
  /\ op # "title" => lang = "en-US"
  /\ Record([op |-> op, lang |-> lang, kind |-> "", word |-> word, enabled |-> TRUE,
             answer |-> f,
             failed |-> (f.net = "fail" \/ f.status # 200 \/ ~f.json),
             result |-> Operation000(op, lang, word, f),
             alert |-> FALSE, called |-> TRUE])

\* part_001, part_002: generateVocabularyList
CallVocabularyList(o) ==
  /\ service \in {"direct", "regex"}
  /\ Record([op |-> "vocabularyList", lang |-> "", kind |-> "", word |-> "", enabled |-> TRUE,
             answer |-> o, failed |-> ~o.ok,
             result |-> Returned(ListBody(generateVocabularyList(service, o))),
             alert |-> FALSE, called |-> TRUE])

\* part_001:66-85 (generateVocabImage); part_002:54-111 (generateVocabImage,
\* generateImage)
CallImage(which, word, enabled, io) ==
  /\ service \in {"direct", "regex"}
  /\ service = "direct" => which = "vocab"
  /\ which = "vocab" => enabled
  /\ LET r == IF service = "regex" THEN Image002(which, word, enabled, io)
              ELSE [url |-> generateVocabImage(service, word, io).url,
                    alert |-> FALSE, called |-> TRUE]
     IN Record([op |-> "image", lang |-> "", kind |-> which, word |-> word,
                enabled |-> enabled, answer |-> [io |-> io], failed |-> io # "ok",
                result |-> Returned(r.url), alert |-> r.alert, called |-> r.called])

\* part_001:219-232, part_002:113-259: the scene entry points
CallScene(kind, lang, o) ==
  /\ service \in {"direct", "regex"}
  \* the kind and the language reach the result in part_002 only
  /\ service = "direct" => (kind = "initial" /\ lang = "en-US")
  /\ Record([op |-> "scene", lang |-> lang, kind |-> kind, word |-> "", enabled |-> TRUE,
             answer |-> o, failed |-> o.net = "fail",
             result |-> [rejected |-> GenerationClient(service, kind, o, lang).rejected,
                         value |-> SceneBody(GenerationClient(service, kind, o, lang).scene)],
             alert |-> FALSE, called |-> TRUE])

\* part_001:234-254, part_002:261-281: generateStoryTitle
CallTitle(lang, to) ==
  /\ service \in {"direct", "regex"}
  /\ Record([op |-> "title", lang |-> lang, kind |-> "", word |-> "", enabled |-> TRUE,
             answer |-> [to |-> to], failed |-> to = "fail",
             result |-> Returned(generateStoryTitle(service, lang, to)),
             alert |-> FALSE, called |-> TRUE])

ClientNext ==
  \/ \E op \in Ops, lang \in Languages, word \in {"ant", "bee"}, f \in FetchAnswers :
       Call000(op, lang, word, f)
  \/ \E o \in VocabOutcomes : CallVocabularyList(o)
  \/ \E which \in {"vocab", "scene"}, word \in {"ant", "bee"}, enabled \in BOOLEAN,
        io \in ImageOutcomes : CallImage(which, word, enabled, io)
  \/ \E kind \in Kinds, lang \in Languages, o \in Outcomes : CallScene(kind, lang, o)
  \/ \E lang \in Languages, to \in TitleOutcomes : CallTitle(lang, to)

ClientSpec == ClientInit /\ [][ClientNext]_vars

\* ============================================ scene display and the reveal
\* SpeechSpec follows one displayed scene.  The specification below lets the
\* session go on to further scenes, so that the narration effect (181-266)
\* runs again: its cleanup, the reset of the displayed text and a new reveal
\* interval.  The audio is the automatic narration (SpeechSpec has the
\* buttons and the teardown); the listening session between a displayed scene
\* and the next request is left out, so the request may come at any point of
\* the narration.

\* scenes displayed in one followed session
MaxShown == 2

\* Storybook.tsx:175 -> 144-158: the debounce timer of processSpeech calls
\* generateScene(choice); the render that follows has isLoading set, so the
\* cleanup of the narration effect clears the reveal interval (264) and the
\* effect body is skipped (182).  As in DebounceFire, the 100 ms narration
\* timer has fired before this 1000 ms timer.
SceneRequest(choice) ==
  /\ phase = "mounted"
  /\ MicRendered
  /\ ~isLoading
  /\ narrTimers = {}
  /\ Len(scenes) < MaxShown
  /\ GenerateSceneCall(choice, Len(scenes), storySoFar)
  /\ utts' = Cancel(utts)
  /\ ticker' = FALSE
  /\ UNCHANGED <<params, scenes, currentSceneIndex, isListening, transcript,
                 isProcessing, hasSpokenForScene, feedbackTimeout, recVars,
                 forwarded, appVars, phase, narrTimers, timers, handlers,
                 doneTimers, revealed, revealVars, speakCalls, speakResolved>>

\* a narration effect that forgets setDisplayedText('')
SceneDisplayed_noReset(r, o) ==
  /\ r \in inflight
  /\ inflight' = inflight \ {r}
  /\ o = NominalOutcome \/ Degraded(scenes) < MaxDegraded
  /\ LET res == GenerationClient(service, r.kind, o, language)
         idx == NextIndex(r.len)
     IN IF res.rejected
        THEN UNCHANGED <<scenes, currentSceneIndex, isLoading, hasSpokenForScene,
                         narrTimers, revealed, ticker, revealVars>>
        ELSE /\ scenes' = AppendScene(scenes, res.scene)
             /\ currentSceneIndex' = idx
             /\ isLoading' = FALSE
             /\ revealed' = revealed
             /\ displayedOf' = displayedOf
             /\ tickerOf' = res.scene.text
             /\ ticker' = (res.scene.text # "")
             /\ IF NarrationDue(scenes', idx)
                THEN /\ hasSpokenForScene' = hasSpokenForScene \cup {idx}
                     /\ narrTimers' = narrTimers \cup {idx}
                ELSE UNCHANGED <<hasSpokenForScene, narrTimers>>
  /\ UNCHANGED <<params, isListening, transcript, isAwaitingFeedback, isSpeaking,
                 isProcessing, feedbackTimeout, recVars, synth, genCalls,
                 forwarded, appVars, phase, timers, handlers, utts, doneTimers,
                 speakCalls, speakResolved>>

\* Storybook.tsx:160-162 after the await of 155/157, and the narration effect
\* of the render that follows (181-264): the displayed text is reset (183),
\* the narration of a scene not narrated before is scheduled (187-250), and a
\* reveal interval over the new narrative starts (253-262) unless the
\* narrative is empty (185)
SceneDisplayed(r, o) ==
  /\ r \in inflight
  /\ inflight' = inflight \ {r}
  /\ o = NominalOutcome \/ Degraded(scenes) < MaxDegraded
  /\ LET res == GenerationClient(service, r.kind, o, language)
         idx == NextIndex(r.len)
     IN IF res.rejected
        THEN UNCHANGED <<scenes, currentSceneIndex, isLoading, hasSpokenForScene,
                         narrTimers, revealed, ticker, revealVars>>
        ELSE /\ scenes' = AppendScene(scenes, res.scene)
             /\ currentSceneIndex' = idx
             /\ isLoading' = FALSE
             /\ revealed' = 0
             /\ displayedOf' = ""
             /\ tickerOf' = res.scene.text
             /\ ticker' = (res.scene.text # "")
             /\ IF NarrationDue(scenes', idx)
                THEN /\ hasSpokenForScene' = hasSpokenForScene \cup {idx}
                     /\ narrTimers' = narrTimers \cup {idx}
                ELSE UNCHANGED <<hasSpokenForScene, narrTimers>>
  /\ UNCHANGED <<params, isListening, transcript, isAwaitingFeedback, isSpeaking,
                 isProcessing, feedbackTimeout, recVars, synth, genCalls,
                 forwarded, appVars, phase, timers, handlers, utts, doneTimers,
                 speakCalls, speakResolved>>

\* Storybook.tsx:48-54 and 181-266: the voice list arrives or changes
\* (onvoiceschanged -> setVoices), a dependency of the narration effect: its
\* cleanup clears the interval and the effect runs again for the scene that
\* is displayed
VoicesChanged ==
  /\ phase = "mounted"
  /\ HasCurrentScene
  /\ ~isLoading
  /\ revealed' = 0
  /\ displayedOf' = ""
  /\ tickerOf' = currentScene.text
  /\ ticker' = (currentScene.text # "")
  /\ IF NarrationDue(scenes, currentSceneIndex)
     THEN /\ hasSpokenForScene' = hasSpokenForScene \cup {currentSceneIndex}
          /\ narrTimers' = narrTimers \cup {currentSceneIndex}
     ELSE UNCHANGED <<hasSpokenForScene, narrTimers>>
  /\ UNCHANGED <<params, scenes, currentSceneIndex, isLoading, isListening,
                 transcript, isAwaitingFeedback, isSpeaking, isProcessing,
                 feedbackTimeout, inflight, recVars, synth, genCalls, forwarded,
                 appVars, phase, timers, handlers, utts, doneTimers, speakCalls,
                 speakResolved>>

DisplayNext ==
  \/ \E idx \in narrTimers : NarrationStart(idx)
  \/ \E i \in 1..MaxUtter : UttStart(i)
  \/ \E i \in 1..MaxUtter : UttFinish(i)
  \/ RevealTick
  \/ VoicesChanged
  \/ SceneRequest("c1")
  \/ \E r \in inflight, o \in Outcomes : SceneDisplayed(r, o)

DisplaySpec == SpeechInit /\ [][DisplayNext]_vars

\* ================================================ selection screens (part_007)
\* ModeSelectionScreen (25-98) and StoryToneSelectionScreen (154-223) with the
\* speak of the shell they are given (261-298)

\* option clicks followed on one screen
MaxClicks == 2

\* the options of a screen: languages and categories (60-83), tones (191-208)
ScreenOptions(kind) ==
  IF kind = "mode"
  THEN {[type |-> "lang", value |-> "th-TH"], [type |-> "lang", value |-> "en-US"],
        [type |-> "cat", value |-> "animals_nature"],
        [type |-> "cat", value |-> "food_drink"]}
  ELSE {[type |-> "tone", value |-> "adventure"], [type |-> "tone", value |-> "funny"],
        [type |-> "tone", value |-> "mystery"]}

\* no click is waiting for speak
NoOption == [type |-> "none", value |-> ""]

\* part_007:26-29, 155-157: the screen after its first render
\*   utt      the utterance of speak: "none" | "queued" | "speaking"
\*   signals  the synthesis will deliver the utterance's events
\*   pending  the option whose click awaits speak (line 40 / 177)
ScreenState(kind) ==
  [kind |-> kind, mounted |-> TRUE, isSpeaking |-> FALSE, language |-> "th-TH",
   category |-> "animals_nature", tone |-> "adventure", pending |-> NoOption,
   utt |-> "none", signals |-> TRUE, clicks |-> 0]

\* the shell of part_007 showing one of the two screens
ScreenInit ==
  /\ StoryAbsent
  /\ SpeechIdle
  /\ PreloadIdle
  /\ ClientIdle
  /\ service = "direct"
  /\ app = "App"
  /\ screen \in {ScreenState(kind) : kind \in {"mode", "tone"}}
  /\ gameState = IF screen.kind = "mode" THEN "MODE_SELECTION" ELSE "STORY_TONE_SELECTION"
  /\ preloadedData = 0
  /\ fullWordList = 0
  /\ preloads = {}
  /\ preloadCalls = 0
  /\ visits = 0
  /\ appLoading = FALSE
  /\ audioSrc = 0
  /\ isAudioPlaying = FALSE
  /\ isAudioLoading = FALSE
  /\ audioEl = "idle"
  /\ tts = {}
  /\ ttsCalls = 0
  /\ stopped = FALSE
  /\ trainer = NoTrainer
  /\ dispatch = NoDispatch

screenRest == <<storyVars, speechVars, app, gameState, preloadedData, fullWordList,
                preloads, preloadCalls, visits, appLoading, audioVars, stopped,
                preloadVars, clientVars, trainer, dispatch>>

\* part_007:36-40 and 173-177 (buttons of 64, 79, 198, disabled while
\* speaking): the click sets the flag and awaits speak, which cancels the
\* queue and submits one utterance (267-296); every option has a text
OptionClick(opt, signals) ==
  /\ screen.kind \in {"mode", "tone"}
  /\ screen.mounted
  /\ opt \in ScreenOptions(screen.kind)
  /\ ~screen.isSpeaking
  /\ screen.clicks < MaxClicks
  /\ screen' = [screen EXCEPT !.isSpeaking = TRUE, !.pending = opt,
                              !.utt = "queued", !.signals = signals,
                              !.clicks = @ + 1]
  /\ UNCHANGED screenRest

\* the synthesis starts the utterance (speak attaches no onstart)
ScreenSynthStart ==
  /\ screen.kind \in {"mode", "tone"}
  /\ screen.utt = "queued"
  /\ screen.signals
  /\ screen' = [screen EXCEPT !.utt = "speaking"]
  /\ UNCHANGED screenRest

\* part_007:290-294: the utterance's end or error resolves speak, and the
\* click handler goes on (42-49, 179-182)
ScreenSynthDone ==
  /\ screen.kind \in {"mode", "tone"}
  /\ screen.utt \in {"queued", "speaking"}
  /\ screen.signals
  /\ LET opt == screen.pending
     IN screen' =
          IF screen.mounted
          THEN [screen EXCEPT
                  !.utt = "none", !.pending = NoOption, !.isSpeaking = FALSE,
                  !.language = IF opt.type = "lang" THEN opt.value ELSE @,
                  !.category = IF opt.type = "cat" THEN opt.value ELSE @,
                  !.tone = IF opt.type = "tone" THEN opt.value ELSE @]
          ELSE [screen EXCEPT !.utt = "none", !.pending = NoOption]
  /\ UNCHANGED screenRest

\* part_007:31-34 and 159-162: the screen is taken off (the home button of
\* the shell stays enabled)
ScreenUnmount ==
  /\ screen.kind \in {"mode", "tone"}
  /\ screen.mounted
  /\ screen' = [screen EXCEPT !.mounted = FALSE]
  /\ UNCHANGED screenRest

ScreenNext ==
  \/ \E opt \in ScreenOptions(screen.kind), signals \in BOOLEAN : OptionClick(opt, signals)
  \/ ScreenSynthStart
  \/ ScreenSynthDone
  \/ ScreenUnmount

ScreenSpec == ScreenInit /\ [][ScreenNext]_vars

\* the synthesis delivers the events of an utterance it signals for
FairScreenSpec ==
  /\ ScreenSpec
  /\ WF_vars(ScreenSynthStart)
  /\ WF_vars(ScreenSynthDone)

\* ============================================== vocabulary trainer (VocabTrainer)
\* The component of components/VocabTrainer.tsx followed on its own: the
\* category shown, the selected-word list, the images of the words and the
\* create-story button.

\* VocabTrainer.tsx:66-74: the categories offered
TrainerCategories == {"animals_nature", "food_drink"}

\* './constants' VOCABULARY[category] (not among the sources): one list per
\* category; the second list repeats an english term of the first under
\* another translation, so that the comparison by english term is exercised
WordsOf(category) ==
  IF category = "animals_nature"
  THEN VOCABULARY
  ELSE <<[thai |-> "TH2: " \o EnglishOf[1], english |-> EnglishOf[1]], Word(MaxWords + 1)>>

\* the words of a list
Range(seq) == {seq[i] : i \in 1..Len(seq)}

\* VocabTrainer.tsx:13-16: the state after the first render
TrainerState ==
  [on |-> TRUE, selectedCategory |-> "null", selectedWords |-> <<>>,
   wordImages |-> {}, isLoadingImages |-> FALSE, fetches |-> {},
   completed |-> <<>>]

\* the shell showing the trainer (App.tsx:350-354)
TrainerInit ==
  /\ StoryAbsent
  /\ SpeechIdle
  /\ PreloadIdle
  /\ ClientIdle
  /\ service = "direct"
  /\ app = "App"
  /\ screen = NoScreen
  /\ trainer = TrainerState
  /\ gameState = "VOCAB_TRAINER"
  /\ preloadedData = 0
  /\ fullWordList = 0
  /\ preloads = {}
  /\ preloadCalls = 0
  /\ visits = 0
  /\ appLoading = FALSE
  /\ audioSrc = 0
  /\ isAudioPlaying = FALSE
  /\ isAudioLoading = FALSE
  /\ audioEl = "idle"
  /\ tts = {}
  /\ ttsCalls = 0
  /\ stopped = FALSE
  /\ dispatch = NoDispatch

trainerRest == <<storyVars, speechVars, app, gameState, preloadedData, fullWordList,
                 preloads, preloadCalls, visits, appLoading, audioVars, stopped,
                 preloadVars, clientVars, screen, dispatch>>

\* VocabTrainer.tsx:42-44 with the effect of 20-40: the category is shown and
\* the images of its words are requested
HandleSelectCategory(category) ==
  /\ trainer.on
  /\ trainer.selectedCategory = "null"
  /\ trainer.completed = <<>>
  /\ category \in TrainerCategories
  /\ trainer' = [trainer EXCEPT
                   !.selectedCategory = category,
                   !.isLoadingImages = Len(WordsOf(category)) > 0 \/ @,
                   !.fetches = IF Len(WordsOf(category)) > 0 THEN @ \cup {category} ELSE @]
  /\ UNCHANGED trainerRest

\* VocabTrainer.tsx:24-37: Promise.all of the image requests settles
FetchImagesSettle(category, ok) ==
  /\ trainer.on
  /\ category \in trainer.fetches
  /\ trainer' = [trainer EXCEPT
                   !.fetches = @ \ {category},
                   !.wordImages = IF ok
                                  THEN @ \cup {w.english : w \in Range(WordsOf(category))}
                                  ELSE @,
                   !.isLoadingImages = FALSE]
  /\ UNCHANGED trainerRest

\* VocabTrainer.tsx:84: back to the categories; the selection is kept
BackToCategories ==
  /\ trainer.on
  /\ trainer.selectedCategory # "null"
  /\ trainer.completed = <<>>
  /\ trainer' = [trainer EXCEPT !.selectedCategory = "null"]
  /\ UNCHANGED trainerRest

\* prev.filter(w => w.english !== word.english)                   (line 49)
WithoutEnglish(prev, english) == SelectSeq(prev, LAMBDA w : w.english # english)

\* handleSelectWord without the length check of line 51
SelectedAfter_noLimit(prev, word) ==
  IF \E i \in 1..Len(prev) : prev[i].english = word.english
  THEN WithoutEnglish(prev, word.english)
  ELSE Append(prev, word)

\* VocabTrainer.tsx:47-55: the updater of setSelectedWords
SelectedAfter(prev, word) ==
  IF \E i \in 1..Len(prev) : prev[i].english = word.english
  THEN WithoutEnglish(prev, word.english)
  ELSE IF Len(prev) < MAX_WORDS_PER_ROUND
       THEN Append(prev, word)
       ELSE prev

\* VocabTrainer.tsx:46-56, 96-99: a word button of the shown category
HandleSelectWord(word) ==
  /\ trainer.on
  /\ trainer.selectedCategory # "null"
  /\ trainer.completed = <<>>
  /\ word \in Range(WordsOf(trainer.selectedCategory))
  /\ trainer' = [trainer EXCEPT !.selectedWords = SelectedAfter(@, word)]
  /\ UNCHANGED trainerRest

\* VocabTrainer.tsx:126: the create-story button is not disabled
CreateStoryEnabled ==
  /\ trainer.on
  /\ trainer.selectedCategory # "null"
  /\ ~(Len(trainer.selectedWords) < MAX_WORDS_PER_ROUND)

\* VocabTrainer.tsx:124-127: onComplete(selectedWords)
CreateStory ==
  /\ CreateStoryEnabled
  /\ trainer.completed = <<>>
  /\ trainer' = [trainer EXCEPT !.completed = trainer.selectedWords]
  /\ UNCHANGED trainerRest

TrainerNext ==
  \/ \E category \in TrainerCategories : HandleSelectCategory(category)
  \/ \E category \in TrainerCategories, ok \in BOOLEAN : FetchImagesSettle(category, ok)
  \/ BackToCategories
  \/ \E category \in TrainerCategories :
       \E word \in Range(WordsOf(category)) : HandleSelectWord(word)
  \/ CreateStory

TrainerSpec == TrainerInit /\ [][TrainerNext]_vars

\* ================================================ backend function by request
\* The Netlify function that dispatches on the task of the request, in its
\* two versions: netlify/functions/generate-speech.ts:297-349
\* ("generate-speech.ts") and part_005:15-130 ("part_005").  One request is
\* followed from the invocation to the response or the rejection.

HandlerVariants == {"generate-speech.ts", "part_005"}

\* the cases of the switch (generate-speech.ts:306-322; part_005:28, 59-122)
TasksOf(variant) ==
  IF variant = "generate-speech.ts"
  THEN {"generateGeminiSpeech", "generateVocabularyList", "generateImage",
        "generateFullStoryScene", "generateStoryTitle"}
  ELSE {"generate-speech", "generateVocabularyList", "generateImage",
        "generateFullStoryScene", "generateStoryTitle"}

\* task names a request may carry; "undefined" is an object without a task
RequestTasks ==
  TasksOf("generate-speech.ts") \cup TasksOf("part_005") \cup {"noSuchTask", Undefined}

\* event.body: absent (null or ''), text that is not JSON, the JSON text
\* null, or the JSON text of an object
Bodies ==
  {[kind |-> k, task |-> Undefined] : k \in {"absent", "invalid", "null"}}
    \cup {[kind |-> "object", task |-> t] : t \in RequestTasks}

Events == [httpMethod : {"POST", "GET"}, body : Bodies]

\* JSON.parse(event.body || '{}') followed by `const { task, payload } =`:
\* the task, or the exception thrown
ParseTask(body) ==
  CASE body.kind = "absent" -> [thrown |-> FALSE, task |-> Undefined]
    [] body.kind = "invalid" -> [thrown |-> TRUE, task |-> Undefined]
    [] body.kind = "null" -> [thrown |-> TRUE, task |-> Undefined]
    [] OTHER -> [thrown |-> FALSE, task |-> body.task]

HandlerRejected == [kind |-> "rejected"]

Response(statusCode, body) == [kind |-> "response", statusCode |-> statusCode, body |-> body]

\* generate-speech.ts:297-349.  `settles` tells whether the task's handler
\* returns its result or throws an Error.
HandlerGS(event, settles) ==
  IF event.httpMethod # "POST"
  THEN Response(405, "Method Not Allowed")
  ELSE LET parsed == ParseTask(event.body)
       IN IF parsed.thrown
          THEN Response(500, "An error occurred on the server.")
          ELSE IF parsed.task \in TasksOf("generate-speech.ts")
               THEN IF settles
                    THEN Response(200, <<"result", parsed.task>>)
                    ELSE Response(500, "An error occurred on the server.")
               ELSE Response(400, <<"Unknown task", parsed.task>>)

\* part_005:15-130: the body is parsed outside the try blocks (line 20)
Handler005(event, settles, apiKey) ==
  IF event.httpMethod # "POST"
  THEN Response(405, "Method Not Allowed")
  ELSE LET parsed == ParseTask(event.body)
       IN IF parsed.thrown
          THEN HandlerRejected
          ELSE IF ~apiKey
               THEN Response(500, "API_KEY is not configured on the server.")
               ELSE IF parsed.task \in TasksOf("part_005")
                    THEN IF settles
                         THEN Response(200, <<"result", parsed.task>>)
                         ELSE Response(500, "Internal Server Error")
                    ELSE Response(400, <<"Unknown task", parsed.task>>)

\* the function deployed, awaiting a request
DispatchInit ==
  /\ StoryAbsent
  /\ SpeechIdle
  /\ PreloadIdle
  /\ ClientIdle
  /\ service = "direct"
  /\ app = "App"
  /\ screen = NoScreen
  /\ trainer = NoTrainer
  /\ dispatch \in {[pc |-> "idle", variant |-> v, apiKey |-> k] :
                     v \in HandlerVariants, k \in BOOLEAN}
  /\ gameState = "HOME"
  /\ preloadedData = 0
  /\ fullWordList = 0
  /\ preloads = {}
  /\ preloadCalls = 0
  /\ visits = 0
  /\ appLoading = FALSE
  /\ audioSrc = 0
  /\ isAudioPlaying = FALSE
  /\ isAudioLoading = FALSE
  /\ audioEl = "idle"
  /\ tts = {}
  /\ ttsCalls = 0
  /\ stopped = FALSE

dispatchRest == <<storyVars, speechVars, app, gameState, preloadedData, fullWordList,
                  preloads, preloadCalls, visits, appLoading, audioVars, stopped,
                  preloadVars, clientVars, screen, trainer>>

\* the platform invokes the handler with an event
Invoke(event) ==
  /\ dispatch.pc \in {"idle", "done"}
  /\ event \in Events
  /\ dispatch' = [pc |-> "running", variant |-> dispatch.variant,
                  apiKey |-> dispatch.apiKey, event |-> event]
  /\ UNCHANGED dispatchRest

\* the promise of the handler settles
HandlerSettled(settles) ==
  /\ dispatch.pc = "running"
  /\ dispatch' = [pc |-> "done", variant |-> dispatch.variant,
                  apiKey |-> dispatch.apiKey, event |-> dispatch.event,
                  settles |-> settles,
                  outcome |-> IF dispatch.variant = "generate-speech.ts"
                              THEN HandlerGS(dispatch.event, settles)
                              ELSE Handler005(dispatch.event, settles, dispatch.apiKey)]
  /\ UNCHANGED dispatchRest

DispatchNext ==
  \/ \E event \in Events : Invoke(event)
  \/ \E settles \in BOOLEAN : HandlerSettled(settles)

DispatchSpec == DispatchInit /\ [][DispatchNext]_vars

\* ================================================================ claims
LastScene == scenes[Len(scenes)]

\* C1: at most one scene-generation request is in flight: generateScene is
\* never entered while an earlier call has not appended its scene, at most
\* one debounce timer is pending, and none is pending while a request is in
\* flight.
C1_SingleFlight ==
  /\ Cardinality(inflight) <= 1
  /\ \A r \in inflight : ~r.busy
  /\ Cardinality(timers) <= 1
  /\ inflight # {} => timers = {}

\* a request issued from a voice transcript is in flight while the
\* recognizer, already told to stop, can still deliver result and end events
C1_Witness == \E r \in inflight : r.id >= 2 /\ recState = "stopping" /\ results < MaxResults

\* C2: the kind of a request depends only on the history length at the time
\* it is issued: 0 -> initial, 1..3 -> next with the story so far and the
\* resolved choice, 4 -> final; the 5th call is the final request.
C2_KindByHistory ==
  \A r \in inflight :
    /\ r.histLen = 0 => r.kind = "initial"
    /\ r.histLen \in 1..3 =>
         r.kind = "next" /\ r.story = r.histStory /\ r.choice = r.resolved
    /\ r.histLen = 4 => r.kind = "final" /\ r.story = r.histStory
    /\ r.id = 5 => r.kind = "final"

C2_Witness == \E r \in inflight : r.id = 5 /\ r.histLen = 4 /\ r.kind = "final"

\* C3: tapping a choice button in AWAITING_CHOICE resolves that choice: a
\* generation request (or its debounce) for that choice's text results.
C3_ButtonResolves ==
  [][\A i \in 1..3 :
       TapChoice(i) =>
         \/ \E t \in timers' : t.choice = currentScene.choices[i]
         \/ \E r \in inflight' : r.resolved = currentScene.choices[i]]_vars

\* C4: every generation request issued completes with a scene that is
\* appended, after which the busy flag is clear: the k-th request leads to a
\* history of k scenes with no request in flight.
C4_RequestCompletes ==
  \A k \in 1..MaxGen :
    (\E r \in inflight : r.id = k) ~> (Len(scenes) = k /\ ~isLoading /\ inflight = {})

\* a fallback scene was appended after an earlier scene and the controls are back
C4_Witness ==
  /\ Len(scenes) >= 2
  /\ LastScene \in {FallbackScene, FallbackNext(language)}
  /\ ~isLoading
  /\ inflight = {}

\* no generation in flight, no debounce pending, recognizer idle, narration over
Quiescent ==
  /\ phase = "mounted"
  /\ inflight = {}
  /\ timers = {}
  /\ ~isAwaitingFeedback
  /\ recState = "idle"
  /\ ~isListening
  /\ synth = "idle"
  /\ narrTimers = {}
  /\ ~isSpeaking

\* C5: in every quiescent state an action that advances the flow is
\* enabled: a voice capture can start or the completion action is enabled.
C5_NoDeadlock ==
  Quiescent => \/ (MicEnabled /\ StartListeningAccepted)
               \/ CompleteEnabled

\* C6: after a generation completes with a scene whose choice list is empty
\* the sequence is over: the completion action is available and no voice
\* capture (hence no further request) is offered.
C6_EmptyTerminates ==
  (ControlsRendered /\ HasCurrentScene /\ currentScene.hasChoices
     /\ currentScene.choices = <<>>)
  => (CompleteRendered /\ ~MicRendered)

\* C7: every scene in the history has a choice list that matches its
\* position: 2 to 3 entries before the 5th scene, none from the 5th on.
C7_ChoiceCount ==
  \A i \in DOMAIN scenes :
    IF i > FinalAfter THEN Len(scenes[i].choices) = 0
    ELSE Len(scenes[i].choices) \in 2..3

\* C8: with no request in flight the history holds one scene per request
\* issued, and every scene has a non-empty narrative.
C8_CountAndNarrative ==
  /\ inflight = {} => Len(scenes) = genCalls
  /\ \A i \in DOMAIN scenes : scenes[i].text # ""

\* C9: the history is append-only: whenever it changes, the earlier scenes
\* are unchanged, one scene is added at the end, and the story so far grows
\* by exactly that scene's narrative (joined with a blank).
C9_AppendOnly ==
  [][scenes' # scenes =>
       /\ Len(scenes') = Len(scenes) + 1
       /\ SubSeq(scenes', 1, Len(scenes)) = scenes
       /\ storySoFar' = IF scenes = <<>> THEN scenes'[Len(scenes')].text
                        ELSE storySoFar \o " " \o scenes'[Len(scenes')].text]_vars

\* a history of two scenes with different narratives
C9_Witness == Len(scenes) >= 2 /\ scenes[1].text # scenes[2].text

\* C10: the busy flag is set while a request is in flight and is cleared
\* only in the step that appends the resulting scene.
C10_BusyFlag ==
  /\ [](inflight # {} => isLoading)
  /\ [][(isLoading /\ ~isLoading') =>
          (Len(scenes') = Len(scenes) + 1 /\ inflight' = {})]_vars

\* a request issued from a resolved choice is in flight with the flag set
C10_Witness == \E r \in inflight : r.id >= 2 /\ r.histLen >= 1 /\ isLoading

\* C11: within one listening session the first final segment stops the
\* recognizer and forwards its text; whatever result and end events follow,
\* one text at most is forwarded in the session, and a generation call
\* issued from a transcript consumes the one pending debounce timer of the
\* forwarded text.
C11_ForwardOnce ==
  /\ [](Len(forwarded) <= 1)
  /\ [][\A ev \in ResultEvents :
          (RecResult(ev) /\ ev.final # "" /\ forwarded = <<>>) =>
            (forwarded' = <<ev.final>> /\ recState' = "stopping")]_vars
  /\ [][(genCalls' # genCalls /\ genCalls >= 1) =>
          (\E t \in timers : forwarded = <<t.choice>> /\ timers' = {})]_vars

\* the final text was forwarded, a later interim result and the end event
\* were delivered after it
C11_Witness ==
  /\ forwarded = <<"go left">>
  /\ transcript = "go"
  /\ recState = "idle"
  /\ isProcessing

\* C12: when the recognizer ends and no final segment was produced in the
\* session, an interim transcript T is forwarded once as the choice (one
\* debounce timer for T), and with no transcript nothing is forwarded, no
\* timer is set and no generation is triggered.
C12_EndForwardsInterim ==
  [][(RecEnd /\ ~isProcessing) =>
       IF transcript # ""
       THEN /\ forwarded' = <<transcript>>
            /\ \E t \in timers' : timers' = timers \cup {t} /\ t \notin timers
                                  /\ t.choice = transcript
       ELSE /\ forwarded' = <<>>
            /\ timers' = timers
            /\ ~isAwaitingFeedback'
            /\ genCalls' = genCalls]_vars

\* the recognizer ended on the interim transcript "go", which was forwarded
C12_Witness == forwarded = <<"go">> /\ recState = "idle" /\ transcript = "go"

\* C13: a recognizer error clears the listening flag; from then on nothing
\* of that session is forwarded (the forwarded texts change only when a new
\* session starts), and a new session can be started from the microphone.
C13_ErrorDropsTranscript ==
  /\ [][RecError => ~isListening']_vars
  /\ [][recState = "errored" => (forwarded' = forwarded \/ isListening')]_vars
  /\ [](recState = "errored" /\ MicEnabled => StartListeningAccepted)

\* C14: while the speaking, loading or awaiting-feedback flag is set, the
\* microphone and every choice button are disabled and no listening
\* session starts.
C14_InputGated ==
  /\ []((isSpeaking \/ isLoading \/ isAwaitingFeedback) =>
          (~MicEnabled /\ \A i \in 1..3 : ~ChoiceButtonEnabled(i)))
  /\ [][(isSpeaking \/ isLoading \/ isAwaitingFeedback) =>
          ~(~isListening /\ isListening')]_vars

\* narration is audible while the scene's choices and the microphone are shown
C14_Witness ==
  /\ isSpeaking
  /\ MicRendered
  /\ ~isListening
  /\ Len(currentScene.choices) = 3

\* C15: every call of speak resolves its promise: a call with an empty text
\* resolves at once without an utterance, every other open promise belongs
\* to a live utterance that has its failsafe timer pending or has started,
\* and the k-th call leads to k resolved promises.
C15_SpeakResolves ==
  /\ [](speakCalls - speakResolved =
          Cardinality({i \in DOMAIN utts : utts[i].kind = "speak" /\ ~utts[i].resolved}))
  /\ [](\A i \in DOMAIN utts :
          (utts[i].kind = "speak" /\ ~utts[i].resolved) =>
            (utts[i].failsafe \/ (utts[i].hasStarted /\ utts[i].handlers)))
  /\ \A k \in 1..MaxSpeak : (speakCalls >= k) ~> (speakResolved >= k)

\* the failsafe resolved the promise of an utterance that never started
C15_Witness ==
  \E i \in DOMAIN utts :
    /\ utts[i].kind = "speak"
    /\ utts[i].resolved
    /\ ~utts[i].hasStarted
    /\ ~utts[i].failsafe

\* C16: whenever the speaking flag is set it returns to false (while the
\* component is mounted), also after a synthesis error or the failsafe
\* timeout, with no user action needed.
C16_SpeakingFlagRecovers ==
  (phase = "mounted" /\ isSpeaking) ~> (~isSpeaking \/ phase = "unmounted")

\* C17: the replay/stop control: with the speaking flag set it cancels the
\* queue and clears the flag and submits nothing; with the flag clear it
\* cancels and submits the narrative only if the displayed text has reached
\* the narrative's length, and otherwise changes nothing.
C17_ReplayStop ==
  [][ReplayOrStop =>
       IF isSpeaking
       THEN /\ ~isSpeaking'
            /\ Len(utts') = Len(utts)
            /\ \A i \in DOMAIN utts' : utts'[i].st = "canceled"
       ELSE IF revealed >= Length(currentScene.text)
       THEN /\ Len(utts') = Len(utts) + 1
            /\ \A i \in DOMAIN utts : utts'[i].st = "canceled"
            /\ utts'[Len(utts')].kind = "speak"
            /\ utts'[Len(utts')].text = currentScene.text
            /\ utts'[Len(utts')].st = "queued"
            /\ isSpeaking' = isSpeaking
       ELSE UNCHANGED vars]_vars

\* the fully displayed narrative was submitted again by the control
C17_Witness ==
  /\ revealed >= Length(currentScene.text)
  /\ \E i \in DOMAIN utts : utts[i].kind = "speak" /\ utts[i].text = currentScene.text

\* C18: after teardown the synthesis is cancelled and nothing the component
\* created is pending: no reveal ticker, narration-start timer, failsafe
\* timer, onDone timer, debounce timer or recognizer handler.
C18_TeardownClean ==
  phase = "unmounted" =>
    /\ \A i \in DOMAIN utts : utts[i].st = "canceled" /\ ~utts[i].failsafe
    /\ ~ticker
    /\ narrTimers = {}
    /\ doneTimers = 0
    /\ timers = {}
    /\ ~handlers

\* C19: a vocabulary preload that goes on or ends after the user went home
\* is discarded: its steps change neither the game state nor the stored
\* preloaded items nor the stored word list.
C19_StalePreloadDiscarded ==
  [][\A p \in preloads :
       (PreloadStep(p) /\ p.entry # visits) =>
         (gameState' = gameState /\ preloadedData' = preloadedData
            /\ fullWordList' = fullWordList)]_vars

\* C20: from a call of stopSpeech until the next call of speak the audio
\* element plays nothing.
C20_StopSilences == stopped => audioEl # "playing"

\* C21: whatever the backend answers, a finished vocabulary preload has stored
\* exactly MAX_WORDS_PER_ROUND items, each a word with non-empty thai and
\* english fields and the generated or fallback image URI of that word, in
\* the order of the round's words.
C21_PreloadFillsRound ==
  preloadPc = "done" =>
    /\ Len(preloadedData) = MAX_WORDS_PER_ROUND
    /\ \A k \in DOMAIN preloadedData :
         /\ preloadedData[k].word.thai # ""
         /\ preloadedData[k].word.english # ""
         /\ preloadedData[k].word = wordList[k]
         /\ preloadedData[k].imageUrl \in
              {GeneratedImage(wordList[k].english), FallbackImage(wordList[k].english)}

\* C22: during a vocabulary preload at most one image request is in flight,
\* and the request for a word is issued only once the URI of the word before
\* it has arrived.
C22_ImagesSequential ==
  /\ [](Cardinality(imageRequests) <= 1)
  /\ [][\A k \in imageRequests' \ imageRequests :
          k = 1 \/ preloadedItems'[k - 1] # ""]_vars

\* C23: each of the four operations of the part_000 client returns a value,
\* and never throws or rejects, whatever the fetch does (network error, non-2xx
\* status, a body that is not JSON or lacks the awaited key); an answer with a
\* non-2xx status always gives the operation's fallback value.
C23_ClientNeverThrows ==
  (lastCall.op \in Ops /\ service \in {"api005", "apiGS"}) =>
    /\ ~lastCall.result.rejected
    /\ (lastCall.answer.net = "ok" /\ lastCall.answer.status # 200) =>
         lastCall.result.value = Fallback000(lastCall.op, lastCall.lang, lastCall.word)

C23_Witness ==
  /\ service = "apiGS"
  /\ lastCall.op = "title"
  /\ lastCall.answer = FetchAnswer("ok", 500, FALSE, NullBody)
  /\ lastCall.result = Returned(FallbackTitle("th-TH"))
  /\ prevCall.op = "image"
  /\ prevCall.answer.net = "fail"
  /\ prevCall.result = Returned(FallbackImage("bee"))

\* C24: with a JSON client (part_000, part_001), a backend answer to a scene
\* request that is not JSON, or has no narrative or an empty one, is answered
\* with the fallback scene: the scene appended for it is the fallback scene,
\* and its narrative is not empty.
C24_InvalidSceneFallsBack ==
  [][\A r \in inflight, o \in Outcomes :
       (/\ service # "regex"
        /\ GenComplete(r, o)
        /\ (o.net = "fail" \/ ~o.json \/ ~o.hasText \/ o.text = ""))
       => /\ scenes' = Append(scenes, FallbackScene)
          /\ scenes'[Len(scenes')].text # ""]_vars

C26_FallbackDeterministic ==
  (/\ prevCall.op \in Ops
   /\ lastCall.op = prevCall.op
   /\ lastCall.failed /\ prevCall.failed
   /\ lastCall.lang = prevCall.lang
   /\ lastCall.kind = prevCall.kind
   /\ lastCall.word = prevCall.word
   /\ lastCall.enabled = prevCall.enabled)
  => lastCall.result = prevCall.result

C26_Witness ==
  /\ service = "api005"
  /\ prevCall.op = "vocabularyList"
  /\ lastCall.op = "vocabularyList"
  /\ prevCall.answer.net = "fail"
  /\ lastCall.answer = FetchAnswer("ok", 500, TRUE, ObjBody(FALSE, Undefined))
  /\ lastCall.result = Returned(ListBody(<<ErrorWord>>))
  /\ prevCall.result = lastCall.result

\* C27: an empty narrative starts no narration (no timer, no utterance, no
\* ticker, and the speaking flag is still false while nothing else was
\* spoken); no utterance with an empty text is ever handed to the synthesis;
\* speak with an empty text resolves in the same step, submits nothing and
\* leaves the speaking flag as it was.
C27_EmptyTextNoUtterance ==
  /\ [](currentScene.text = ""
          => /\ narrTimers = {}
             /\ ~ticker
             /\ \A i \in DOMAIN utts : utts[i].kind \notin {"scene", "question"}
             /\ speakCalls = 0 => ~isSpeaking)
  /\ [](\A i \in DOMAIN utts : utts[i].text # "")
  /\ [][\A i \in 1..3 :
          (SpeakChoice(i) /\ currentScene.choices[i] = "")
            => /\ speakResolved' = speakResolved + 1
               /\ utts' = Cancel(utts)
               /\ \A j \in DOMAIN utts' : utts'[j].st = "canceled"
               /\ isSpeaking' = isSpeaking /\ ~isSpeaking']_vars

C27_Witness ==
  /\ scenes = <<BlankChoiceScene>>
  /\ speakCalls = 1
  /\ speakResolved = 1
  /\ doneTimers = 0
  /\ narrTimers = {}
  /\ Len(utts) = 2
  /\ \A i \in DOMAIN utts : utts[i].st = "canceled" /\ utts[i].kind # "speak"
  /\ ~isSpeaking

\* C28: the automatic narration queues the narrative first and the follow-up
\* question after it, the question if and only if the scene has at least one
\* choice; the question never speaks while its narrative is still queued; the
\* start of the narrative sets the speaking flag; the end or error of the last
\* utterance of the chain clears it, and the narrative's own end or error
\* leaves it as it is when a question follows.
C28_NarrationChain ==
  /\ [][\A idx \in narrTimers :
          (NarrationStart(idx) /\ phase = "mounted")
            => LET s == scenes[idx + 1]
                   n == Len(utts)
                   asks == s.hasChoices /\ Len(s.choices) >= 1
               IN /\ Len(utts') = n + (IF asks THEN 2 ELSE 1)
                  /\ \A j \in 1..n : utts'[j].st = "canceled"
                  /\ utts'[n + 1].kind = "scene"
                  /\ utts'[n + 1].text = s.text
                  /\ utts'[n + 1].st = "queued"
                  /\ asks => /\ utts'[n + 2].kind = "question"
                              /\ utts'[n + 2].text = FollowUpQuestion
                              /\ utts'[n + 2].st = "queued"]_vars
  /\ [](\A i, j \in DOMAIN utts :
          (i < j /\ utts[i].kind = "scene" /\ utts[i].st = "queued")
            => ~(utts[j].kind = "question" /\ utts[j].st = "speaking"))
  /\ [][\A i \in DOMAIN utts :
          (UttStart(i) /\ utts[i].kind = "scene" /\ phase = "mounted")
            => isSpeaking']_vars
  /\ [][\A i \in DOMAIN utts :
          (UttFinish(i) /\ utts[i].kind \in {"scene", "question"} /\ phase = "mounted")
            => IF utts[i].kind = "question"
                  \/ ~(currentScene.hasChoices /\ Len(currentScene.choices) >= 1)
               THEN ~isSpeaking'
               ELSE isSpeaking' = isSpeaking]_vars

C28_Witness ==
  /\ phase = "mounted"
  /\ Len(currentScene.choices) >= 1
  /\ speakCalls = 0
  /\ Len(utts) = 1
  /\ utts[1].kind = "question"
  /\ utts[1].st = "speaking"
  /\ isSpeaking

\* C29: the step that displays a new scene finds no speech in flight (every
\* utterance still held was cancelled), empties the displayed text and runs a
\* ticker exactly when the new narrative is not empty; the displayed text
\* changes only by a reset to empty or by one character in a step that leaves
\* the audio as it is, and a running ticker can tick whatever the audio's state;
\* the displayed text is always a prefix of the displayed scene's narrative;
\* a ticker runs only over the displayed scene's narrative and the tick after
\* the last character stops it.
C29_RevealPrefix ==
  /\ [][scenes' # scenes
          => /\ \A i \in DOMAIN utts' : utts'[i].st = "canceled"
             /\ revealed' = 0
             /\ displayedOf' = ""
             /\ ticker' = (scenes'[currentSceneIndex' + 1].text # "")]_vars
  /\ [][(revealed' # revealed /\ scenes' = scenes)
          => \/ revealed' = 0 /\ displayedOf' = ""
             \/ /\ revealed' = revealed + 1
                /\ ticker
                /\ utts' = utts
                /\ isSpeaking' = isSpeaking]_vars
  /\ [](ticker => ENABLED RevealTick)
  /\ [](\/ revealed = 0 /\ displayedOf = ""
        \/ /\ displayedOf = currentScene.text
           /\ revealed <= Length(currentScene.text))
  /\ [](ticker => tickerOf = currentScene.text /\ ~isLoading)
  /\ [][(RevealTick /\ revealed >= Length(currentScene.text))
          => ~ticker' /\ revealed' = revealed]_vars

C29_Witness ==
  /\ Len(scenes) = 2
  /\ currentSceneIndex = 1
  /\ scenes[1].text # scenes[2].text
  /\ revealed = Length(scenes[2].text)
  /\ revealed > 0
  /\ displayedOf = scenes[2].text
  /\ ~ticker
  /\ SynthSpeaking(utts)
  /\ \E i \in DOMAIN utts : utts[i].st = "canceled"

\* C30: listening starts only in a step taken with a recognizer, not
\* listening, not awaiting feedback and not loading; a call of startListening
\* in such a state cancels the synthesis, clears the speaking flag, the
\* pending debounce, the transcript and the processing guard, sets the
\* listening flag and starts the recognizer with its handlers attached and
\* changes nothing else; a call in any other state changes nothing.
C30_StartListeningGuard ==
  /\ [][(~isListening /\ isListening') => StartListeningAccepted]_vars
  /\ [][(recState' = "running" /\ recState # "running") => StartListeningAccepted]_vars
  /\ [][(StartListeningCall /\ StartListeningAccepted)
          => /\ synth' = "idle"
             /\ ~isSpeaking'
             /\ transcript' = ""
             /\ ~isProcessing'
             /\ isListening'
             /\ recState' = "running"
             /\ handlers'
             /\ results' = 0
             /\ \A t \in timers' : t.id # feedbackTimeout
             /\ UNCHANGED <<scenes, currentSceneIndex, isLoading, isAwaitingFeedback,
                            hasSpokenForScene, inflight, genCalls, narrTimers,
                            phase, params>>]_vars
  /\ [][(StartListeningCall /\ ~StartListeningAccepted) => UNCHANGED vars]_vars

C30_Witness ==
  /\ isListening
  /\ recState = "running"
  /\ results = 0
  /\ transcript = ""
  /\ ~isProcessing
  /\ synth = "idle"
  /\ Len(scenes) = 2
  /\ ~isLoading
  /\ ~isAwaitingFeedback

\* C31: while a debounce timer is pending the awaiting-feedback flag is set;
\* a timer is scheduled only together with a forwarded, non-empty transcript
\* and the flag; the flag is raised only by scheduling a timer; after the
\* first call at mount, generateScene is called only by a firing timer, with
\* the transcript that was forwarded as its choice, and that step clears the
\* flag.
C31_Debounce ==
  /\ []((timers # {} /\ phase = "mounted") => isAwaitingFeedback)
  /\ [][timers' \ timers # {}
          => \A t \in timers' \ timers :
               /\ t.choice # ""
               /\ forwarded' = Append(forwarded, t.choice)
               /\ isAwaitingFeedback']_vars
  /\ [][(~isAwaitingFeedback /\ isAwaitingFeedback') => timers' \ timers # {}]_vars
  /\ [][forwarded' # forwarded /\ forwarded' # <<>>
          => forwarded'[Len(forwarded')] # "" /\ timers' \ timers # {}]_vars
  /\ [][(genCalls' # genCalls /\ phase # "created")
          => \E t \in timers \ timers' :
               /\ forwarded # <<>>
               /\ t.choice = forwarded[Len(forwarded)]
               /\ \E r \in inflight' \ inflight : r.resolved = t.choice
               /\ ~isAwaitingFeedback'
               /\ isLoading']_vars

C31_Witness ==
  /\ isLoading
  /\ ~isAwaitingFeedback
  /\ timers = {}
  /\ forwarded = <<"go">>
  /\ \E r \in inflight : r.resolved = "go" /\ r.kind = "next"

\* C32: on a selection screen that stays on, a speaking flag that is set is
\* cleared again, so that the buttons are enabled again.
C32_ScreenRecovers ==
  (screen.kind \in {"mode", "tone"} /\ screen.mounted /\ screen.isSpeaking)
    ~> (~screen.isSpeaking \/ ~screen.mounted)

\* C33: the history never holds more scenes than the session's target of
\* CompleteAt, and the displayed scene number never exceeds it.
C33_AtMostFiveScenes ==
  /\ Len(scenes) <= CompleteAt
  /\ currentSceneIndex + 1 <= CompleteAt

\* C34: whenever no generation is in flight and the history is not empty,
\* the displayed scene is the one appended last.
C34_ShowsLastScene ==
  (inflight = {} /\ scenes # <<>>) => currentSceneIndex = Len(scenes) - 1

C34_Witness ==
  /\ inflight = {}
  /\ Len(scenes) = 3
  /\ currentSceneIndex = 2
  /\ scenes[3] = currentScene

\* C35: while the recognizer is listening the narration-start timer submits
\* no narration, and the synthesis is never speaking.
C35_NoNarrationWhileListening ==
  /\ [][\A idx \in narrTimers :
          (NarrTimerFire(idx) /\ synth' = "pending") => ~isListening]_vars
  /\ [](isListening => synth # "speaking")

\* C36: the narration of a scene index is scheduled only while the index is
\* not marked in hasSpokenForScene, the step that schedules it marks it, a
\* mark is never removed, and the start of the narration uses up its timer:
\* each index is narrated automatically at most once, however often the
\* narration effect runs.
C36_NarratedOnce ==
  /\ [][\A idx \in narrTimers' \ narrTimers :
          idx \notin hasSpokenForScene /\ idx \in hasSpokenForScene']_vars
  /\ [][hasSpokenForScene \subseteq hasSpokenForScene']_vars
  /\ [](narrTimers \subseteq hasSpokenForScene)
  /\ [][\A idx \in narrTimers :
          NarrationStart(idx) => (idx \notin narrTimers' /\ idx \in hasSpokenForScene')]_vars
  /\ [][Len(utts') > Len(utts) /\ utts'[Len(utts')].kind \in {"scene", "question"}
          => \E idx \in narrTimers : NarrationStart(idx)]_vars

C36_Witness ==
  /\ Len(scenes) = 2
  /\ hasSpokenForScene = {0, 1}
  /\ narrTimers = {}
  /\ revealed = 0
  /\ ticker
  /\ \E i \in DOMAIN utts : utts[i].kind = "scene" /\ utts[i].st = "speaking"


\* C37: in the vocabulary trainer the selected-word list never holds two
\* words with the same english term nor more than MAX_WORDS_PER_ROUND words;
\* a click on a word whose term is selected removes it, a click on a new word
\* with the list full changes nothing, and the create-story button is enabled
\* only with exactly MAX_WORDS_PER_ROUND words selected.
C37_SelectedWords ==
  /\ [](trainer.on =>
          /\ \A i, j \in 1..Len(trainer.selectedWords) :
               trainer.selectedWords[i].english = trainer.selectedWords[j].english => i = j
          /\ Len(trainer.selectedWords) <= MAX_WORDS_PER_ROUND
          /\ (CreateStoryEnabled => Len(trainer.selectedWords) = MAX_WORDS_PER_ROUND))
  /\ [][\A category \in TrainerCategories : \A word \in Range(WordsOf(category)) :
          HandleSelectWord(word) =>
            LET prev == trainer.selectedWords
                held == \E i \in 1..Len(prev) : prev[i].english = word.english
            IN /\ held => /\ Len(trainer'.selectedWords) = Len(prev) - 1
                          /\ \A i \in 1..Len(trainer'.selectedWords) :
                               trainer'.selectedWords[i].english # word.english
               /\ (~held /\ Len(prev) = MAX_WORDS_PER_ROUND) => trainer' = trainer]_vars
  /\ [][trainer'.on /\ trainer.on /\ trainer'.completed # trainer.completed =>
          /\ Len(trainer.selectedWords) = MAX_WORDS_PER_ROUND
          /\ trainer'.completed = trainer.selectedWords]_vars

\* the story was created from a full list that holds words of both
\* categories
C37_Witness ==
  /\ trainer.on
  /\ Len(trainer.completed) = MAX_WORDS_PER_ROUND
  /\ trainer.selectedCategory = "food_drink"
  /\ \E i \in 1..Len(trainer.completed) : trainer.completed[i] = Word(MaxWords + 1)
  /\ \E i \in 1..Len(trainer.completed) : trainer.completed[i] = Word(2)


\* C38: a preload run starts only on a step that enters the preloading
\* state, and no two vocabulary-list requests of one entry are in flight.
C38_OnePreloadPerEntry ==
  /\ [][preloadCalls' # preloadCalls =>
          /\ gameState' # gameState
          /\ preloadCalls' = preloadCalls + 1]_vars
  /\ [](\A p, q \in preloads :
          (p.entry = q.entry /\ p.stage = 0 /\ q.stage = 0) => p = q)


\* C39: every request to the task-dispatch handler of a configured server is
\* answered with a response, never a rejection: 405 for a method other than
\* POST, 500 for a body that is not JSON or a task handler that throws, 400
\* for an unknown task, and 200 with the task's result otherwise.  (For the
\* JSON text null, which is JSON but no object, 400 and 500 are both taken
\* as agreeing.)
C39_OneResponse ==
  (dispatch.pc = "done" /\ dispatch.apiKey) =>
    LET event == dispatch.event
        out == dispatch.outcome
        known == /\ event.body.kind = "object"
                 /\ event.body.task \in TasksOf(dispatch.variant)
    IN /\ out.kind = "response"
       /\ out.statusCode =
            IF event.httpMethod # "POST" THEN 405
            ELSE IF event.body.kind = "invalid" THEN 500
            ELSE IF event.body.kind = "null" /\ out.statusCode \in {400, 500}
                 THEN out.statusCode
            ELSE IF ~known THEN 400
            ELSE IF ~dispatch.settles THEN 500
            ELSE 200
       /\ out.statusCode = 200 => out.body = <<"result", event.body.task>>

====
